---- MODULE Spec2Model ----
(***************************************************************************)
(* Zappy: the common-tool installer (zappy/modules/system/packages.py),    *)
(* the package-manager abstraction it uses (zappy/utils/distro.py) and the *)
(* Command Runner (utils/command.py), as a state machine.                  *)
(*                                                                         *)
(* The machine follows one batch-install operation from the moment a       *)
(* selection of catalog tools is known: install plan, confirmation,        *)
(* package-index update, the per-tool install loop and the summary.        *)
(* The host (PATH, ~/.nvm, /usr/local/go) is the environment: commands     *)
(* change it, and it may change on its own between two steps.              *)
(***************************************************************************)
EXTENDS Naturals, Integers, Sequences, FiniteSets

VARIABLES
    pm,                 \* PackagesManager.pm, the detected package manager
    env,                \* the host: [onPath, nvmMarker, goBin]
    pc,                 \* position in the operation
    selected_tools,     \* install_menu: the tools the selection resolved to
    already_installed,  \* _build_install_plan: first list
    install_now,        \* _build_install_plan: second list
    tools,              \* _execute_install_batch: its argument
    idx,                \* _execute_install_batch: position of the for loop (1-based)
    success_tools,      \* _execute_install_batch: success_tools
    failed_tools,       \* _execute_install_batch: failed_tools
    batch_result,       \* what _execute_install_batch returned ("none" before)
    calls,              \* every argv handed to subprocess.run, in order
    attempts,           \* one record per install_package call, in order
    update_status,      \* the package-index update: "none", "ok" or "failed"
    menu_result,        \* what install_menu returned ("none" before)
    externals,          \* number of changes of the host made by others
    n_items,            \* multi_select_from_list: len(items), the parser's item_count
    keywords,           \* multi_select_from_list: special_keywords
    allow_back,         \* multi_select_from_list: allow_back
    raw_text,           \* the text entered at the prompt or handed to the parser
    parsed,             \* what parse_multi_select_indices returned
    sel_pc,             \* position in the selector
    sel_result,         \* what multi_select_from_list returned
    last_shown,         \* the message of the last print_error call
    os_release,         \* the host: /etc/os-release, [exists, lines]
    executables,        \* the host: the package-manager binaries on PATH
    detections,         \* one record per detect_distro call, in order
    host_changes,       \* number of binaries installed or removed meanwhile
    cli_pc,             \* cli.main: position, and at the end how the process ended
    exit_code,          \* the exit code of the process, None while it runs
    menu_choices,       \* what select_from_list returned at each main menu shown
    cli_printed,        \* the messages of print_error, in order
    runner_pc,          \* the Command Runner: "call" before, "returned" after a call
    runner_call,        \* the arguments of the call: [command, check, timeout]
    runner_raw,         \* what subprocess.run did
    runner_result,      \* what run_command and run_sudo gave back
    ssh_pc,             \* SSHManager: position in _modify_config or harden_all
    ssh_op,             \* the operation: [kind, setting, value]
    sshd_config,        \* the host: the lines of /etc/ssh/sshd_config
    ssh_backup,         \* the host: the backup file of this operation, None if none
    ssh_content,        \* the variable content: what read_file_sudo returned
    ssh_log,            \* the commands run under sudo, in order, each with its success
    ssh_result,         \* what the operation returned ("none" before)
    nginx_pc,           \* NginxManager.enable_domain: position
    nginx_request,      \* the argument domain_name: None, or Some(name)
    nginx_domain,       \* the variable domain_name once it is known, None before
    sites_available,    \* the host: the config files in sites-available
    sites_enabled,      \* the host: what each name is in sites-enabled
    nginx_log,          \* the commands run under sudo, in order, each with its success
    nginx_result        \* what enable_domain returned ("none" before)

install_vars == <<pm, env, pc, selected_tools, already_installed, install_now, tools,
                  idx, success_tools, failed_tools, batch_result, calls, attempts,
                  update_status, menu_result, externals>>

selector_vars == <<n_items, keywords, allow_back, raw_text, parsed, sel_pc,
                   sel_result, last_shown>>

distro_vars == <<os_release, executables, detections, host_changes>>

cli_vars == <<cli_pc, exit_code, menu_choices, cli_printed>>

runner_vars == <<runner_pc, runner_call, runner_raw, runner_result>>

ssh_vars == <<ssh_pc, ssh_op, sshd_config, ssh_backup, ssh_content, ssh_log, ssh_result>>

nginx_vars == <<nginx_pc, nginx_request, nginx_domain, sites_available, sites_enabled,
                nginx_log, nginx_result>>

service_vars == <<distro_vars, cli_vars, runner_vars, ssh_vars, nginx_vars>>

\* all variables but those of one component
not_distro_vars == <<install_vars, selector_vars, cli_vars, runner_vars, ssh_vars, nginx_vars>>
not_cli_vars == <<install_vars, selector_vars, distro_vars, runner_vars, ssh_vars, nginx_vars>>
not_runner_vars == <<install_vars, selector_vars, distro_vars, cli_vars, ssh_vars, nginx_vars>>
not_ssh_vars == <<install_vars, selector_vars, distro_vars, cli_vars, runner_vars, nginx_vars>>
not_nginx_vars == <<install_vars, selector_vars, distro_vars, cli_vars, runner_vars, ssh_vars>>

vars == <<install_vars, selector_vars, service_vars>>

-----------------------------------------------------------------------------
(* Bounds of the model *)

\* longest selection handed to the planner
MaxSel == 2

\* changes of the host by others during one operation
MaxExternal == 1

-----------------------------------------------------------------------------
(* distro.py: PackageManager and the command tables *)

APT == "apt"
DNF == "dnf"
YUM == "yum"
PACMAN == "pacman"
APK == "apk"
ZYPPER == "zypper"
UNKNOWN == "unknown"

PackageManager == {APT, DNF, YUM, PACMAN, APK, ZYPPER, UNKNOWN}

\* dict.get(key, default)
Get(d, key, default) == IF key \in DOMAIN d THEN d[key] ELSE default

\* the empty dict
EmptyDict == [k \in {} |-> k]

InstallCommands ==
    [apt    |-> <<"apt", "install", "-y">>,
     dnf    |-> <<"dnf", "install", "-y">>,
     yum    |-> <<"yum", "install", "-y">>,
     pacman |-> <<"pacman", "-S", "--noconfirm">>,
     apk    |-> <<"apk", "add">>,
     zypper |-> <<"zypper", "install", "-y">>]

UpdateCommands ==
    [apt    |-> <<"apt", "update">>,
     dnf    |-> <<"dnf", "check-update">>,
     yum    |-> <<"yum", "check-update">>,
     pacman |-> <<"pacman", "-Sy">>,
     apk    |-> <<"apk", "update">>,
     zypper |-> <<"zypper", "refresh">>]

\* the argv both tables fall back to for a manager they do not know
UnknownCommand == <<"echo", "Unknown package manager">>

get_install_command(packages, package_manager) ==
    Get(InstallCommands, package_manager, UnknownCommand) \o packages

get_update_command(package_manager) ==
    Get(UpdateCommands, package_manager, UnknownCommand)

-----------------------------------------------------------------------------
(* packages.py: the catalog *)

TOOL_ORDER ==
    <<"htop", "micro", "ncdu", "tmux", "tree", "jq", "bat", "ripgrep", "fd",
      "neofetch", "flatpak", "nvm-node", "opencode", "claude-code", "rust",
      "go", "brew">>

\* the "description" entries are display text and are left out
COMMON_PACKAGES ==
    [t \in {"htop", "micro", "ncdu", "tmux", "tree", "jq", "bat", "ripgrep",
            "fd", "neofetch", "flatpak"} |->
        CASE t = "bat" ->
               [command |-> "bat", command_apt |-> "batcat",
                apt |-> "bat", dnf |-> "bat", pacman |-> "bat", apk |-> "bat"]
          [] t = "ripgrep" ->
               [command |-> "rg",
                apt |-> "ripgrep", dnf |-> "ripgrep", pacman |-> "ripgrep",
                apk |-> "ripgrep"]
          [] t = "fd" ->
               [command |-> "fd", command_apt |-> "fdfind",
                apt |-> "fd-find", dnf |-> "fd-find", pacman |-> "fd", apk |-> "fd"]
          [] t = "flatpak" ->
               [command |-> "flatpak",
                apt |-> "flatpak", dnf |-> "flatpak", yum |-> "flatpak",
                pacman |-> "flatpak", apk |-> "flatpak", zypper |-> "flatpak"]
          [] OTHER ->
               [command |-> t, apt |-> t, dnf |-> t, pacman |-> t, apk |-> t]]

SCRIPT_TOOLS ==
    [t \in {"nvm-node", "opencode", "claude-code", "rust", "go", "brew"} |->
        CASE t = "nvm-node"    -> [label |-> "NVM + Node.js 24", command |-> "node"]
          [] t = "opencode"    -> [label |-> "Opencode", command |-> "opencode"]
          [] t = "claude-code" -> [label |-> "Claude Code", command |-> "claude"]
          [] t = "rust"        -> [label |-> "Rust", command |-> "rustc"]
          [] t = "go"          -> [label |-> "Go", command |-> "go"]
          [] t = "brew"        -> [label |-> "Homebrew", command |-> "brew"]]

_is_script_tool(tool) == tool \in DOMAIN SCRIPT_TOOLS

_get_package_name(tool, p) ==
    IF _is_script_tool(tool)
    THEN Get(SCRIPT_TOOLS[tool], "command", tool)
    ELSE Get(Get(COMMON_PACKAGES, tool, EmptyDict), p, tool)

_get_command_name(tool, p) ==
    LET pkg_info == Get(COMMON_PACKAGES, tool, EmptyDict)
    IN  IF p = APT /\ "command_apt" \in DOMAIN pkg_info
        THEN pkg_info["command_apt"]
        ELSE Get(pkg_info, "command", tool)

-----------------------------------------------------------------------------
(* command.py: the Command Runner *)

\* what subprocess.run can do with an argv: the process ran and exited, the
\* timeout expired, the executable was not found, or another error at launch.
\* Captured text is a sequence of tokens: words, " " and "\n". A process exits
\* with 0 or, for every failure, with 1.
RawExit(code, out, err) == [kind |-> "exit", code |-> code, out |-> out, err |-> err]
RawTimeout == [kind |-> "timeout"]
RawNotFound == [kind |-> "notfound"]
RawOSError == [kind |-> "oserror"]

\* subprocess.run(command, timeout=timeout): a timeout expires only if one is set
SubprocessRun(outs, timeout) ==
    {RawExit(0, o, <<>>) : o \in outs}
        \cup {RawExit(1, <<>>, <<"failed">>), RawNotFound, RawOSError}
        \cup (IF timeout = "None" THEN {} ELSE {RawTimeout})

\* run_command without its last two except clauses
run_command_uncaught(command, raw, check) ==
    CASE raw.kind = "exit" ->
            [rc |-> raw.code, out |-> raw.out, err |-> raw.err, raised |-> FALSE]
      [] raw.kind = "timeout" ->
            [rc |-> -1, out |-> <<>>, err |-> <<"Command timed out">>, raised |-> FALSE]
      [] OTHER ->
            [rc |-> -1, out |-> <<>>, err |-> <<>>, raised |-> TRUE]

\* run_command: (return_code, stdout, stderr); raised is TRUE if an exception
\* leaves the function
run_command(command, raw, check) ==
    CASE raw.kind = "exit" ->
            IF check /\ raw.code # 0
            THEN \* except subprocess.CalledProcessError
                 [rc |-> raw.code, out |-> raw.out, err |-> raw.err, raised |-> FALSE]
            ELSE [rc |-> raw.code, out |-> raw.out, err |-> raw.err, raised |-> FALSE]
      [] raw.kind = "timeout" ->
            [rc |-> -1, out |-> <<>>, err |-> <<"Command timed out">>, raised |-> FALSE]
      [] raw.kind = "notfound" ->
            [rc |-> -1, out |-> <<>>, err |-> <<"Command not found: ", command[1]>>,
             raised |-> FALSE]
      [] OTHER ->
            [rc |-> -1, out |-> <<>>, err |-> <<"str(e)">>, raised |-> FALSE]

\* run_sudo: the argv it hands to run_command
SudoCommand(command) == <<"sudo">> \o command

\* a run_sudo that takes every exit of the process for a success
run_sudo_any_exit(command, raw) ==
    LET r == run_command(SudoCommand(command), raw, FALSE)
    IN  [success |-> (r.rc >= 0), out |-> r.out, err |-> r.err, raised |-> r.raised]

\* run_sudo: (success, stdout, stderr)
run_sudo(command, raw) ==
    LET r == run_command(SudoCommand(command), raw, FALSE)
    IN  [success |-> (r.rc = 0), out |-> r.out, err |-> r.err, raised |-> r.raised]

\* shutil.which(command) is not None
check_command_exists(command, e) == command \in e.onPath

-----------------------------------------------------------------------------
(* The host *)

AddPath(e, command) == [e EXCEPT !.onPath = @ \cup {command}]

\* whether a process was started at all
Launched(raw) == raw.kind = "exit"

-----------------------------------------------------------------------------
(* packages.py: detection *)

NvmMarkerCommand == <<"bash", "-lc", "test -s \"$HOME/.nvm/nvm.sh\"">>

\* the bash test of _is_installed("nvm-node"), run without a timeout: bash is
\* launched iff it is on PATH, and then exits with 0 iff the file is there
NvmMarkerRun(e) ==
    IF "bash" \in e.onPath
    THEN RawExit(IF e.nvmMarker THEN 0 ELSE 1, <<>>, <<>>)
    ELSE RawNotFound

\* _is_installed("nvm-node") without the test of the marker's return code
_is_installed_node_only(tool, p, e) ==
    IF tool = "nvm-node"
    THEN check_command_exists("node", e)
    ELSE check_command_exists(_get_command_name(tool, p), e)

_is_installed(tool, p, e) ==
    IF tool = "nvm-node"
    THEN LET marker == run_command(NvmMarkerCommand, NvmMarkerRun(e), FALSE)
         IN  IF marker.rc # 0 THEN FALSE ELSE check_command_exists("node", e)
    ELSE check_command_exists(_get_command_name(tool, p), e)

\* the argvs one _is_installed(tool) hands to the Command Runner
DetectionCalls(tool, e) == IF tool = "nvm-node" THEN <<NvmMarkerCommand>> ELSE <<>>

\* a detection that creates the file it tests for
DetectionEffectCreatesMarker(tool, e) ==
    IF tool = "nvm-node" THEN [e EXCEPT !.nvmMarker = TRUE] ELSE e

\* the host after one _is_installed(tool): `test -s` and shutil.which only read
DetectionEffect(tool, e) == e

-----------------------------------------------------------------------------
(* packages.py: the installers.  Each yields the set of its possible         *)
(* outcomes on host e: [ok, calls, env, nonzero, raised] with ok the value   *)
(* returned, calls the argvs handed to the Command Runner, env the host      *)
(* afterwards, nonzero whether a checked command returned a non-zero code,   *)
(* raised whether an exception left the function.                            *)

Outcome(ok, c, e, nonzero, raised) ==
    [ok |-> ok, calls |-> c, env |-> e, nonzero |-> nonzero, raised |-> raised,
     arch |-> [none |-> TRUE]]

NvmInstallCommand ==
    <<"bash", "-lc", "curl nvm-sh/nvm/v0.40.4/install.sh | bash && nvm install 24">>
OpencodeInstallCommand ==
    <<"bash", "-lc", "curl -fsSL https://opencode.ai/install | bash">>
ClaudeInstallCommand ==
    <<"bash", "-lc", "curl -fsSL https://claude.ai/install.sh | bash">>
RustInstallCommand ==
    <<"bash", "-lc", "curl https://sh.rustup.rs | sh -s -- -y">>
BrewInstallCommand ==
    <<"bash", "-lc", "NONINTERACTIVE=1 /bin/bash -c Homebrew/install/HEAD/install.sh">>

\* what a started install script can leave behind: nothing, or the tool's
\* command on PATH (SCRIPT_TOOLS[tool]["command"]); nvm also its nvm.sh
ScriptEffects(tool, raw, e) ==
    IF ~Launched(raw) THEN {e}
    ELSE IF tool = "nvm-node"
         THEN {[e EXCEPT !.nvmMarker = @ \/ m,
                         !.onPath = IF n THEN @ \cup {"node"} ELSE @]
                 : m \in BOOLEAN, n \in BOOLEAN}
         ELSE {e, AddPath(e, SCRIPT_TOOLS[tool]["command"])}

\* a script installer that takes exit status 0 for success
ScriptInstallerTrustExit(tool, command, p, e) ==
    {LET r == run_command(command, x[1], FALSE)
     IN  Outcome(~r.raised /\ r.rc = 0, <<command>>, x[2], ~r.raised /\ r.rc # 0, r.raised)
       : x \in UNION {{<<raw, e2>> : e2 \in ScriptEffects(tool, raw, e)}
                        : raw \in SubprocessRun({<<>>}, "None")}}

\* the common body of _install_nvm_node, _install_opencode,
\* _install_claude_code, _install_rust and _install_brew
ScriptInstaller(tool, command, p, e) ==
    {LET r == run_command(command, x[1], FALSE)
     IN  IF r.raised THEN Outcome(FALSE, <<command>>, x[2], FALSE, TRUE)
         ELSE IF r.rc # 0 THEN Outcome(FALSE, <<command>>, x[2], TRUE, FALSE)
         ELSE Outcome(_is_installed(tool, p, x[2]),
                      <<command>> \o DetectionCalls(tool, x[2]), x[2], FALSE, FALSE)
       : x \in UNION {{<<raw, e2>> : e2 \in ScriptEffects(tool, raw, e)}
                        : raw \in SubprocessRun({<<>>}, "None")}}

_install_nvm_node(p, e) == ScriptInstaller("nvm-node", NvmInstallCommand, p, e)

_install_opencode(p, e) == ScriptInstaller("opencode", OpencodeInstallCommand, p, e)

_install_claude_code(p, e) == ScriptInstaller("claude-code", ClaudeInstallCommand, p, e)

_install_rust(p, e) == ScriptInstaller("rust", RustInstallCommand, p, e)

_install_brew(p, e) == ScriptInstaller("brew", BrewInstallCommand, p, e)

-----------------------------------------------------------------------------
(* packages.py: _install_go *)

IsSpace(tok) == tok \in {" ", "\n"}

\* str.strip()
RECURSIVE LStrip(_)
LStrip(text) ==
    IF text # <<>> /\ IsSpace(Head(text)) THEN LStrip(Tail(text)) ELSE text

RECURSIVE RStrip(_)
RStrip(text) ==
    IF text # <<>> /\ IsSpace(text[Len(text)])
    THEN RStrip(SubSeq(text, 1, Len(text) - 1))
    ELSE text

Strip(text) == RStrip(LStrip(text))

\* str.splitlines(): the lines of a text, without their line ends
RECURSIVE SplitLinesFrom(_, _, _)
SplitLinesFrom(text, line, open) ==
    IF text = <<>> THEN (IF open THEN <<line>> ELSE <<>>)
    ELSE IF Head(text) = "\n" THEN <<line>> \o SplitLinesFrom(Tail(text), <<>>, FALSE)
    ELSE SplitLinesFrom(Tail(text), Append(line, Head(text)), TRUE)

SplitLines(text) == SplitLinesFrom(text, <<>>, FALSE)

\* str.startswith(prefix), prefix one token
StartsWith(text, prefix) == text # <<>> /\ Head(text) = prefix

UnameCommand == <<"uname", "-m">>
GoVersionCommand == <<"bash", "-lc", "curl -fsSL 'https://go.dev/VERSION?m=text'">>
\* tarball and url are formatted from version and go_arch; the argv keeps the format
GoTarball == "/tmp/{version}.linux-{go_arch}.tar.gz"
GoDownloadCommand ==
    <<"curl", "-fsSL", "-o", GoTarball, "https://go.dev/dl/{version}.linux-{go_arch}.tar.gz">>
GoRemoveCommand == <<"rm", "-rf", "/usr/local/go">>
GoExtractCommand == <<"tar", "-C", "/usr/local", "-xzf", GoTarball>>
GoCleanupCommand == <<"rm", "-f", GoTarball>>
GoTestCommand == <<"test", "-x", "/usr/local/go/bin/go">>

arch_map == [x86_64 |-> "amd64", aarch64 |-> "arm64", arm64 |-> "arm64"]

\* what "uname -m" prints on the machines of the model
ArchOutputs == {<<"x86_64", "\n">>, <<"arm64", "\n">>, <<"riscv64", "\n">>, <<>>}

\* what go.dev/VERSION answers in the model
VersionOutputs ==
    {<<"go", "1.22.0", "\n", "time", " ", "2024-03-05">>, <<"<html>", "\n">>,
     <<"\n">>, <<>>}

\* an installer that takes amd64 for every architecture it does not know
GoArchDefaultAmd64(arch_out) ==
    LET arch == Strip(arch_out)
    IN  IF Len(arch) = 1 /\ arch[1] \in DOMAIN arch_map THEN arch_map[arch[1]] ELSE "amd64"

\* arch_map.get(arch_out.strip()); "" when there is no entry
GoArch(arch_out) ==
    LET arch == Strip(arch_out)
    IN  IF Len(arch) = 1 /\ arch[1] \in DOMAIN arch_map THEN arch_map[arch[1]] ELSE ""

\* version_out.splitlines()[0].strip() if version_out else ""; an IndexError
\* is the record with raised
GoVersion(version_out) ==
    IF version_out # <<>>
    THEN IF SplitLines(version_out) = <<>>
         THEN [raised |-> TRUE, version |-> <<>>]
         ELSE [raised |-> FALSE, version |-> Strip(SplitLines(version_out)[1])]
    ELSE [raised |-> FALSE, version |-> <<>>]

\* the test of the extracted binary: exit status 0 iff it is there and executable
GoTestRuns(e) == {RawExit(IF e.goBin THEN 0 ELSE 1, <<>>, <<>>), RawNotFound, RawOSError}

\* what "rm -rf /usr/local/go" leaves: on exit 0 the directory is gone
GoRemoveEffect(raw, e) ==
    IF Launched(raw) /\ raw.code = 0 THEN [e EXCEPT !.goBin = FALSE] ELSE e

\* what a started tar leaves: the binary or not, and "go" on PATH if PATH
\* holds /usr/local/go/bin
GoExtractEffects(raw, e) ==
    IF ~Launched(raw) THEN {e}
    ELSE {e, [e EXCEPT !.goBin = TRUE], AddPath([e EXCEPT !.goBin = TRUE], "go")}

\* lines 352-357: test -x, then the return
GoVerify(c, p, e) ==
    {LET r == run_command(GoTestCommand, raw, FALSE)
         c2 == Append(c, GoTestCommand)
     IN  IF r.raised THEN Outcome(FALSE, c2, e, FALSE, TRUE)
         ELSE IF r.rc # 0 THEN Outcome(FALSE, c2, e, TRUE, FALSE)
         ELSE Outcome(_is_installed("go", p, e) \/ r.rc = 0, c2, e, FALSE, FALSE)
       : raw \in GoTestRuns(e)}

\* lines 347-350: sudo tar, rm -f of the tarball, then the check of tar
GoExtract(c, p, e) ==
    UNION {LET r == run_sudo(GoExtractCommand, x[1])
               rm == run_command(GoCleanupCommand, x[3], FALSE)
               c2 == c \o <<SudoCommand(GoExtractCommand), GoCleanupCommand>>
           IN  IF r.raised THEN {Outcome(FALSE, Append(c, SudoCommand(GoExtractCommand)),
                                         x[2], FALSE, TRUE)}
               ELSE IF rm.raised THEN {Outcome(FALSE, c2, x[2], FALSE, TRUE)}
               ELSE IF ~r.success THEN {Outcome(FALSE, c2, x[2], TRUE, FALSE)}
               ELSE GoVerify(c2, p, x[2])
             : x \in UNION {{<<raw, e2, raw2>> : e2 \in GoExtractEffects(raw, e),
                                                 raw2 \in SubprocessRun({<<>>}, "None")}
                              : raw \in SubprocessRun({<<>>}, "None")}}

\* lines 343-345: sudo rm -rf /usr/local/go
GoRemove(c, p, e) ==
    UNION {LET r == run_sudo(GoRemoveCommand, raw)
               c2 == Append(c, SudoCommand(GoRemoveCommand))
               e2 == GoRemoveEffect(raw, e)
           IN  IF r.raised THEN {Outcome(FALSE, c2, e2, FALSE, TRUE)}
               ELSE IF ~r.success THEN {Outcome(FALSE, c2, e2, TRUE, FALSE)}
               ELSE GoExtract(c2, p, e2)
             : raw \in SubprocessRun({<<>>}, "None")}

\* lines 335-341: the download of the tarball
GoDownload(c, p, e) ==
    UNION {LET r == run_command(GoDownloadCommand, raw, FALSE)
               c2 == Append(c, GoDownloadCommand)
           IN  IF r.raised THEN {Outcome(FALSE, c2, e, FALSE, TRUE)}
               ELSE IF r.rc # 0 THEN {Outcome(FALSE, c2, e, TRUE, FALSE)}
               ELSE GoRemove(c2, p, e)
             : raw \in SubprocessRun({<<>>}, "None")}

\* lines 323-333: the latest version
GoFetchVersion(c, p, e) ==
    UNION {LET r == run_command(GoVersionCommand, raw, FALSE)
               c2 == Append(c, GoVersionCommand)
               v == GoVersion(r.out)
           IN  IF r.raised THEN {Outcome(FALSE, c2, e, FALSE, TRUE)}
               ELSE IF r.rc # 0 THEN {Outcome(FALSE, c2, e, TRUE, FALSE)}
               ELSE IF v.raised THEN {Outcome(FALSE, c2, e, FALSE, TRUE)}
               ELSE IF ~StartsWith(v.version, "go") THEN {Outcome(FALSE, c2, e, FALSE, FALSE)}
               ELSE GoDownload(c2, p, e)
             : raw \in SubprocessRun(VersionOutputs, "None")}

\* the outcomes keep arch, the architecture string line 311 read
_install_go(p, e) ==
    UNION {LET r == run_command(UnameCommand, raw, FALSE)
               c2 == <<UnameCommand>>
               arch == [none |-> FALSE, value |-> Strip(r.out)]
           IN  IF r.raised THEN {Outcome(FALSE, c2, e, FALSE, TRUE)}
               ELSE IF r.rc # 0 THEN {Outcome(FALSE, c2, e, TRUE, FALSE)}
               ELSE IF GoArch(r.out) = ""
                    THEN {[Outcome(FALSE, c2, e, FALSE, FALSE) EXCEPT !.arch = arch]}
               ELSE {[o EXCEPT !.arch = arch] : o \in GoFetchVersion(c2, p, e)}
             : raw \in SubprocessRun(ArchOutputs, "None")}

-----------------------------------------------------------------------------
(* packages.py: _install_script_tool and install_package *)

Installers == {"nvm-node", "opencode", "claude-code", "rust", "go", "brew"}

_install_script_tool(tool, p, e) ==
    IF tool \notin Installers
    THEN {Outcome(FALSE, <<>>, e, FALSE, FALSE)}
    ELSE CASE tool = "nvm-node"    -> _install_nvm_node(p, e)
           [] tool = "opencode"    -> _install_opencode(p, e)
           [] tool = "claude-code" -> _install_claude_code(p, e)
           [] tool = "rust"        -> _install_rust(p, e)
           [] tool = "go"          -> _install_go(p, e)
           [] tool = "brew"        -> _install_brew(p, e)

\* what a started package-manager install can leave behind: nothing, or the
\* tool's command on PATH; the echo of the unknown manager installs nothing
PackageInstallEffects(tool, p, raw, e) ==
    IF ~Launched(raw) \/ p \notin DOMAIN InstallCommands THEN {e}
    ELSE {e, AddPath(e, _get_command_name(tool, p))}

\* a package-manager branch that classifies by the detection afterwards
InstallFromPackageManagerVerified(tool, p, e) ==
    {LET install_cmd == get_install_command(<<_get_package_name(tool, p)>>, p)
         r == run_sudo(install_cmd, x[1])
     IN  Outcome(_is_installed(tool, p, x[2]), <<SudoCommand(install_cmd)>>, x[2],
                 ~r.success, r.raised)
       : x \in UNION {{<<raw, e2>> : e2 \in PackageInstallEffects(tool, p, raw, e)}
                        : raw \in SubprocessRun({<<>>}, "None")}}

\* lines 518-529: the package-manager branch of install_package
InstallFromPackageManager(tool, p, e) ==
    {LET install_cmd == get_install_command(<<_get_package_name(tool, p)>>, p)
         r == run_sudo(install_cmd, x[1])
     IN  Outcome(r.success, <<SudoCommand(install_cmd)>>, x[2], ~r.success, r.raised)
       : x \in UNION {{<<raw, e2>> : e2 \in PackageInstallEffects(tool, p, raw, e)}
                        : raw \in SubprocessRun({<<>>}, "None")}}

\* an outcome with the calls of the detection that came first
AfterDetection(tool, e, o) == [o EXCEPT !.calls = DetectionCalls(tool, e) \o @]

\* install_package without the check of lines 511-513
install_package_no_recheck(tool, p, e) ==
    IF _is_script_tool(tool)
    THEN {AfterDetection(tool, e, o) : o \in _install_script_tool(tool, p, e)}
    ELSE {AfterDetection(tool, e, o) : o \in InstallFromPackageManager(tool, p, e)}

install_package(tool, p, e) ==
    IF _is_installed(tool, p, e)
    THEN {Outcome(TRUE, DetectionCalls(tool, e), e, FALSE, FALSE)}
    ELSE IF _is_script_tool(tool)
         THEN {AfterDetection(tool, e, o) : o \in _install_script_tool(tool, p, e)}
         ELSE {AfterDetection(tool, e, o) : o \in InstallFromPackageManager(tool, p, e)}

-----------------------------------------------------------------------------
(* packages.py: the install plan and the batch *)

InSeq(x, s) == \E i \in 1..Len(s) : s[i] = x

\* a plan whose second list is the whole selection
_build_install_plan_unfiltered(selected, p, e) ==
    <<SelectSeq(selected, LAMBDA tool : _is_installed(tool, p, e)), selected>>

\* (already_installed, install_now)
_build_install_plan(selected, p, e) ==
    LET already == SelectSeq(selected, LAMBDA tool : _is_installed(tool, p, e))
    IN  <<already, SelectSeq(selected, LAMBDA tool : ~InSeq(tool, already))>>

\* the argvs the detections of one pass over a list hand to the Command Runner
RECURSIVE DetectionCallsOf(_, _)
DetectionCallsOf(list, e) ==
    IF list = <<>> THEN <<>>
    ELSE DetectionCalls(Head(list), e) \o DetectionCallsOf(Tail(list), e)

\* the host after the detections of one pass over a list
RECURSIVE PlanHost(_, _)
PlanHost(list, e) ==
    IF list = <<>> THEN e
    ELSE PlanHost(Tail(list), DetectionEffect(Head(list), e))

\* pm_tools without its filter
PmToolsUnfiltered(list) == list

\* pm_tools of _execute_install_batch
PmTools(list) == SelectSeq(list, LAMBDA tool : ~_is_script_tool(tool))

\* str(bool)
Str(b) == IF b THEN "True" ELSE "False"

\* a batch that gives up when the update failed
AfterUpdateAbort(r, list) ==
    IF r.raised THEN "crashed"
    ELSE IF list = <<>> \/ ~r.success THEN "summary" ELSE "install"

\* where _execute_install_batch goes after the update (lines 401-406): the
\* result of run_sudo is not looked at
AfterUpdate(r, list) ==
    IF r.raised THEN "crashed" ELSE IF list = <<>> THEN "summary" ELSE "install"

\* a loop that breaks at the first failed tool
AfterInstallStopOnFailure(i, list, ok) ==
    IF i + 1 > Len(list) \/ ~ok THEN "summary" ELSE "install"

\* where the for loop goes after install_package returned for list[i]
AfterInstall(i, list, ok) == IF i + 1 > Len(list) THEN "summary" ELSE "install"

\* a return value that is True as soon as one tool succeeded
BatchReturnAnySucceeded(succeeded, failed) == Len(succeeded) > 0 \/ Len(failed) = 0

\* the value _execute_install_batch returns (line 430)
BatchReturn(succeeded, failed) == Len(failed) = 0

-----------------------------------------------------------------------------
(* ui.py: parse_multi_select_indices.  A text is a sequence of characters. *)

\* Optional[...]: None, or a value
None == [none |-> TRUE]
Some(v) == [none |-> FALSE, value |-> v]

\* str.lower(), on the letters the inputs are written with
LowerChar(c) == CASE c = "B" -> "b" [] c = "M" -> "m" [] OTHER -> c
Lower(text) == [i \in 1..Len(text) |-> LowerChar(text[i])]

\* str.split(sep): the pieces between the separators, empty ones included
RECURSIVE SplitFrom(_, _, _)
SplitFrom(text, sep, piece) ==
    IF text = <<>> THEN <<piece>>
    ELSE IF Head(text) = sep THEN <<piece>> \o SplitFrom(Tail(text), sep, <<>>)
    ELSE SplitFrom(Tail(text), sep, Append(piece, Head(text)))

Split(text, sep) == SplitFrom(text, sep, <<>>)

\* [part.strip() for part in parts]
StripAll(parts) == [i \in 1..Len(parts) |-> Strip(parts[i])]

DecimalDigits == <<"0", "1", "2", "3", "4", "5", "6", "7", "8", "9">>

IsDigit(c) == \E d \in 1..Len(DecimalDigits) : DecimalDigits[d] = c

DigitValue(c) == (CHOOSE d \in 1..Len(DecimalDigits) : DecimalDigits[d] = c) - 1

\* int(text) raises ValueError: on the characters of the inputs (digits, ",",
\* "-", " " and letters) a stripped text is a number iff it is a non-empty
\* run of digits
ValueError(text) == text = <<>> \/ \E i \in 1..Len(text) : ~IsDigit(text[i])

\* int(text), base 10, leading zeros allowed
RECURSIVE int(_)
int(text) ==
    IF text = <<>> THEN 0
    ELSE 10 * int(SubSeq(text, 1, Len(text) - 1)) + DigitValue(text[Len(text)])

\* the error messages: the f-string and the values formatted into it
EmptyInputError ==
    [text |-> "Input is empty. Enter numbers, ranges, or a supported keyword."]

KeywordOutOfRangeError(value, index, item_count) ==
    [text |-> "Keyword '{value}' contains out-of-range value: {idx + 1}. Valid range is 1-{item_count}.",
     value |-> value, number |-> index + 1, item_count |-> item_count]

EmptyTokenError == [text |-> "Malformed token: empty value between commas."]

MalformedRangeError(token) ==
    [text |-> "Malformed token '{token}'. Expected range like '4-7'.", token |-> token]

RangeNotNumbersError(token) ==
    [text |-> "Malformed token '{token}'. Range values must be numbers.", token |-> token]

InvalidRangeError(token) ==
    [text |-> "Invalid range '{token}'. Range start must be less than or equal to range end.",
     token |-> token]

RangeOutOfRangeError(token, item_count) ==
    [text |-> "Out-of-range value in '{token}'. Valid range is 1-{item_count}.",
     token |-> token, item_count |-> item_count]

NotNumberError(token) ==
    [text |-> "Malformed token '{token}'. Expected number or range like '4-7'.",
     token |-> token]

NumberOutOfRangeError(num, item_count) ==
    [text |-> "Out-of-range value '{num}'. Valid range is 1-{item_count}.",
     number |-> num, item_count |-> item_count]

\* the returned pair (indices, error_message)
Parsed(indices, error) == [indices |-> indices, error |-> error]

\* the selected indices from the last item of the menu to the first
MenuOrderDescending(item_count, selected) ==
    SelectSeq([i \in 1..item_count |-> item_count - i], LAMBDA i : i \in selected)

\* [i for i in range(item_count) if i in selected]
MenuOrder(item_count, selected) ==
    SelectSeq([i \in 1..item_count |-> i - 1], LAMBDA i : i \in selected)

\* a value that keeps the blanks around the input
NormalizeNoStrip(raw_input) == Lower(raw_input)

\* value = (raw_input or "").strip().lower()
Normalize(raw_input) == Lower(Strip(raw_input))

\* special_keywords is a dict: its entries [key, indices] in insertion order,
\* <<>> for None.  keyword_map = {k.lower(): v ...}: of the entries whose
\* lower-cased keys are equal, the last one stays.
KeywordEntries(special_keywords, value) ==
    {k \in 1..Len(special_keywords) : Lower(special_keywords[k].key) = value}

\* value in keyword_map
InKeywordMap(special_keywords, value) == KeywordEntries(special_keywords, value) # {}

\* keyword_map[value]
KeywordIndices(special_keywords, value) ==
    LET last == CHOOSE k \in KeywordEntries(special_keywords, value) :
                    \A j \in KeywordEntries(special_keywords, value) : j <= k
    IN  special_keywords[last].indices

\* an expansion that leaves out the indices outside the menu
RECURSIVE ExpandKeywordSkipping(_, _, _, _)
ExpandKeywordSkipping(value, indices, item_count, selected) ==
    IF indices = <<>> THEN Parsed(Some(MenuOrder(item_count, selected)), None)
    ELSE ExpandKeywordSkipping(value, Tail(indices), item_count,
                               selected \cup {Head(indices)})

\* lines 169-177: the for loop over keyword_map[value] and the return
RECURSIVE ExpandKeyword(_, _, _, _)
ExpandKeyword(value, indices, item_count, selected) ==
    IF indices = <<>> THEN Parsed(Some(MenuOrder(item_count, selected)), None)
    ELSE IF ~(0 <= Head(indices) /\ Head(indices) < item_count)
    THEN Parsed(None, KeywordOutOfRangeError(value, Head(indices), item_count))
    ELSE ExpandKeyword(value, Tail(indices), item_count, selected \cup {Head(indices)})

\* what one token yields: an error, or the indices it adds to selected
Token(error, add) == [error |-> error, add |-> add]

\* a range parser that checks the bounds before the order of the two ends
ParseRangeBoundsFirst(token, item_count) ==
    LET parts == StripAll(Split(token, "-"))
    IN  IF Len(parts) # 2 \/ parts[1] = <<>> \/ parts[2] = <<>>
        THEN Token(MalformedRangeError(token), {})
        ELSE IF ValueError(parts[1]) \/ ValueError(parts[2])
        THEN Token(RangeNotNumbersError(token), {})
        ELSE LET start == int(parts[1])
                 end == int(parts[2])
             IN  IF start < 1 \/ end > item_count
                 THEN Token(RangeOutOfRangeError(token, item_count), {})
                 ELSE IF start > end THEN Token(InvalidRangeError(token), {})
                 ELSE Token(None, {val - 1 : val \in start..end})

\* lines 186-210: a token with "-" in it
ParseRange(token, item_count) ==
    LET parts == StripAll(Split(token, "-"))
    IN  IF Len(parts) # 2 \/ parts[1] = <<>> \/ parts[2] = <<>>
        THEN Token(MalformedRangeError(token), {})
        ELSE IF ValueError(parts[1]) \/ ValueError(parts[2])
        THEN Token(RangeNotNumbersError(token), {})
        ELSE LET start == int(parts[1])
                 end == int(parts[2])
             IN  IF start > end THEN Token(InvalidRangeError(token), {})
                 ELSE IF start < 1 \/ end > item_count
                 THEN Token(RangeOutOfRangeError(token, item_count), {})
                 ELSE Token(None, {val - 1 : val \in start..end})

\* a number parser that leaves out a number outside the menu
ParseNumberSkipsOutOfRange(token, item_count) ==
    IF ValueError(token) THEN Token(NotNumberError(token), {})
    ELSE LET num == int(token)
         IN  IF ~(1 <= num /\ num <= item_count) THEN Token(None, {})
             ELSE Token(None, {num - 1})

\* lines 212-222: a token without "-"
ParseNumber(token, item_count) ==
    IF ValueError(token) THEN Token(NotNumberError(token), {})
    ELSE LET num == int(token)
         IN  IF ~(1 <= num /\ num <= item_count)
             THEN Token(NumberOutOfRangeError(num, item_count), {})
             ELSE Token(None, {num - 1})

\* a loop that passes over empty tokens
RECURSIVE ParseTokensSkipEmpty(_, _, _)
ParseTokensSkipEmpty(tokens, item_count, selected) ==
    IF tokens = <<>> THEN Parsed(Some(MenuOrder(item_count, selected)), None)
    ELSE LET token == Head(tokens)
         IN  IF token = <<>> THEN ParseTokensSkipEmpty(Tail(tokens), item_count, selected)
             ELSE LET t == IF InSeq("-", token) THEN ParseRange(token, item_count)
                           ELSE ParseNumber(token, item_count)
                  IN  IF t.error # None THEN Parsed(None, t.error)
                      ELSE ParseTokensSkipEmpty(Tail(tokens), item_count,
                                                selected \cup t.add)

\* lines 182-224: the for loop over the tokens and the return
RECURSIVE ParseTokens(_, _, _)
ParseTokens(tokens, item_count, selected) ==
    IF tokens = <<>> THEN Parsed(Some(MenuOrder(item_count, selected)), None)
    ELSE LET token == Head(tokens)
         IN  IF token = <<>> THEN Parsed(None, EmptyTokenError)
             ELSE LET t == IF InSeq("-", token) THEN ParseRange(token, item_count)
                           ELSE ParseNumber(token, item_count)
                  IN  IF t.error # None THEN Parsed(None, t.error)
                      ELSE ParseTokens(Tail(tokens), item_count, selected \cup t.add)

\* a parser that tries the tokens first and the keywords only if they fail
parse_multi_select_indices_tokens_first(raw_input, item_count, special_keywords) ==
    LET value == Normalize(raw_input)
        by_tokens == ParseTokens(StripAll(Split(value, ",")), item_count, {})
    IN  IF value = <<>> THEN Parsed(None, EmptyInputError)
        ELSE IF by_tokens.error = None THEN by_tokens
        ELSE IF InKeywordMap(special_keywords, value)
        THEN ExpandKeyword(value, KeywordIndices(special_keywords, value), item_count, {})
        ELSE by_tokens

parse_multi_select_indices(raw_input, item_count, special_keywords) ==
    LET value == Normalize(raw_input)
    IN  IF value = <<>> THEN Parsed(None, EmptyInputError)
        ELSE IF InKeywordMap(special_keywords, value)
        THEN ExpandKeyword(value, KeywordIndices(special_keywords, value), item_count, {})
        ELSE ParseTokens(StripAll(Split(value, ",")), item_count, {})

-----------------------------------------------------------------------------
(* The state machine *)

\* the tools and package managers the selections of the model are drawn from
SampleTools == {"htop", "bat", "nvm-node", "opencode", "go"}
SampleManagers == {APT, DNF, UNKNOWN}

\* the command whose presence on PATH decides the detection of a tool
DetectionCommand(tool, p) == IF tool = "nvm-node" THEN "node" ELSE _get_command_name(tool, p)

\* the hosts that differ in what the detections of a selection can see
Hosts(selected, p) ==
    [onPath : SUBSET ({DetectionCommand(selected[i], p) : i \in 1..Len(selected)}
                        \cup (IF InSeq("nvm-node", selected) THEN {"bash"} ELSE {})),
     nvmMarker : IF InSeq("nvm-node", selected) THEN BOOLEAN ELSE {FALSE},
     goBin : IF InSeq("go", selected) THEN BOOLEAN ELSE {FALSE}]

\* selected_tools = [tools[i] for i in choices], choices ascending and distinct
Selections ==
    {SelectSeq(TOOL_ORDER, LAMBDA tool : tool \in S) :
        S \in {T \in SUBSET SampleTools : Cardinality(T) \in 1..MaxSel}}

\* no platform detection is being looked at
DistroIdle ==
    /\ os_release = [exists |-> FALSE, lines |-> <<>>]
    /\ executables = {}
    /\ detections = <<>>
    /\ host_changes = 0

\* the process is not being looked at as a whole
CliIdle ==
    /\ cli_pc = "idle"
    /\ exit_code = [none |-> TRUE]
    /\ menu_choices = <<>>
    /\ cli_printed = <<>>

\* the Command Runner is not being looked at on its own
RunnerIdle ==
    /\ runner_pc = "idle"
    /\ runner_call = [none |-> TRUE]
    /\ runner_raw = [none |-> TRUE]
    /\ runner_result = [none |-> TRUE]

\* no SSH operation is being looked at
SshIdle ==
    /\ ssh_pc = "idle"
    /\ ssh_op = [none |-> TRUE]
    /\ sshd_config = <<>>
    /\ ssh_backup = [none |-> TRUE]
    /\ ssh_content = [none |-> TRUE]
    /\ ssh_log = <<>>
    /\ ssh_result = "none"

\* no nginx operation is being looked at
NginxIdle ==
    /\ nginx_pc = "idle"
    /\ nginx_request = [none |-> TRUE]
    /\ nginx_domain = [none |-> TRUE]
    /\ sites_available = {}
    /\ sites_enabled = <<>>
    /\ nginx_log = <<>>
    /\ nginx_result = "none"

\* the other components are not being looked at
ServicesIdle == DistroIdle /\ CliIdle /\ RunnerIdle /\ SshIdle /\ NginxIdle

\* no selection is being read
SelectorIdle ==
    /\ n_items = 0
    /\ keywords = <<>>
    /\ allow_back = TRUE
    /\ raw_text = <<>>
    /\ parsed = Parsed(None, None)
    /\ sel_pc = "idle"
    /\ sel_result = None
    /\ last_shown = None

Init ==
    /\ pm \in SampleManagers
    /\ selected_tools \in Selections
    /\ env \in Hosts(selected_tools, pm)
    /\ pc = "plan"
    /\ already_installed = <<>>
    /\ install_now = <<>>
    /\ tools = <<>>
    /\ idx = 1
    /\ success_tools = <<>>
    /\ failed_tools = <<>>
    /\ batch_result = "none"
    /\ calls = <<>>
    /\ attempts = <<>>
    /\ update_status = "none"
    /\ menu_result = "none"
    /\ externals = 0
    /\ SelectorIdle
    /\ ServicesIdle

\* a plan that refreshes the package index before the user is asked
BuildInstallPlanUpdating ==
    /\ pc = "plan"
    /\ LET plan == _build_install_plan(selected_tools, pm, env)
       IN  /\ already_installed' = plan[1]
           /\ install_now' = plan[2]
           /\ calls' = Append(calls \o DetectionCallsOf(selected_tools, env),
                              SudoCommand(get_update_command(pm)))
           /\ env' = PlanHost(selected_tools, env)
           /\ IF plan[2] = <<>>
              THEN pc' = "done" /\ menu_result' = "True"
              ELSE pc' = "confirm" /\ menu_result' = menu_result
    /\ UNCHANGED <<pm, selected_tools, tools, idx, success_tools, failed_tools,
                   batch_result, attempts, update_status, externals>>
    /\ UNCHANGED <<selector_vars, service_vars>>

\* install_menu, lines 478-495: the plan, and the return when nothing is to install
BuildInstallPlan ==
    /\ pc = "plan"
    /\ LET plan == _build_install_plan(selected_tools, pm, env)
       IN  /\ already_installed' = plan[1]
           /\ install_now' = plan[2]
           /\ calls' = calls \o DetectionCallsOf(selected_tools, env)
           /\ env' = PlanHost(selected_tools, env)
           /\ IF plan[2] = <<>>
              THEN pc' = "done" /\ menu_result' = "True"
              ELSE pc' = "confirm" /\ menu_result' = menu_result
    /\ UNCHANGED <<pm, selected_tools, tools, idx, success_tools, failed_tools,
                   batch_result, attempts, update_status, externals>>
    /\ UNCHANGED <<selector_vars, service_vars>>

\* install_menu, lines 497-500: the confirmation
Confirm ==
    /\ pc = "confirm"
    /\ \E answer \in BOOLEAN :
          IF answer
          THEN pc' = "batch" /\ tools' = install_now /\ menu_result' = menu_result
          ELSE pc' = "done" /\ tools' = tools /\ menu_result' = "False"
    /\ UNCHANGED <<pm, env, selected_tools, already_installed, install_now, idx,
                   success_tools, failed_tools, batch_result, calls, attempts,
                   update_status, externals>>
    /\ UNCHANGED <<selector_vars, service_vars>>

\* _execute_install_batch, lines 397-404: the package-index update
UpdatePackageList ==
    /\ pc = "batch"
    /\ IF PmTools(tools) # <<>>
       THEN \E raw \in SubprocessRun({<<>>}, "None") :
               LET update_cmd == get_update_command(pm)
                   r == run_sudo(update_cmd, raw)
               IN  /\ calls' = Append(calls, SudoCommand(update_cmd))
                   /\ update_status' = IF r.success THEN "ok" ELSE "failed"
                   /\ pc' = AfterUpdate(r, tools)
       ELSE /\ calls' = calls
            /\ update_status' = update_status
            /\ pc' = IF tools = <<>> THEN "summary" ELSE "install"
    /\ idx' = 1
    /\ success_tools' = <<>>
    /\ failed_tools' = <<>>
    /\ UNCHANGED <<pm, env, selected_tools, already_installed, install_now, tools,
                   batch_result, attempts, menu_result, externals>>
    /\ UNCHANGED <<selector_vars, service_vars>>

\* _execute_install_batch, lines 406-412: one turn of the for loop
InstallNext ==
    /\ pc = "install"
    /\ idx <= Len(tools)
    /\ \E o \in install_package(tools[idx], pm, env) :
          /\ calls' = calls \o o.calls
          /\ env' = o.env
          /\ attempts' = Append(attempts,
                [tool |-> tools[idx], ok |-> o.ok, raised |-> o.raised,
                 pre |-> _is_installed(tools[idx], pm, env),
                 detected |-> _is_installed(tools[idx], pm, o.env),
                 nonzero |-> o.nonzero, calls |-> o.calls,
                 binary |-> (tools[idx] = "go" /\ o.env.goBin),
                 arch |-> o.arch])
          /\ IF o.raised
             THEN /\ pc' = "crashed"
                  /\ UNCHANGED <<idx, success_tools, failed_tools>>
             ELSE /\ success_tools' = IF o.ok THEN Append(success_tools, tools[idx])
                                      ELSE success_tools
                  /\ failed_tools' = IF o.ok THEN failed_tools
                                     ELSE Append(failed_tools, tools[idx])
                  /\ idx' = idx + 1
                  /\ pc' = AfterInstall(idx, tools, o.ok)
    /\ UNCHANGED <<pm, selected_tools, already_installed, install_now, tools,
                   batch_result, update_status, menu_result, externals>>
    /\ UNCHANGED <<selector_vars, service_vars>>

\* _execute_install_batch, lines 414-430: the summary, pause and return
Summary ==
    /\ pc = "summary"
    /\ batch_result' = Str(BatchReturn(success_tools, failed_tools))
    /\ menu_result' = Str(BatchReturn(success_tools, failed_tools))
    /\ pc' = "done"
    /\ UNCHANGED <<pm, env, selected_tools, already_installed, install_now, tools, idx,
                   success_tools, failed_tools, calls, attempts, update_status,
                   externals>>
    /\ UNCHANGED <<selector_vars, service_vars>>

\* somebody else installs or removes something the detections look at, while
\* the operation waits or works (a change before the plan is another initial host)
ExternalChange ==
    /\ pc \in {"confirm", "batch", "install"}
    /\ externals < MaxExternal
    /\ externals' = externals + 1
    /\ \E h \in Hosts(selected_tools, pm) :
          /\ h # env
          /\ Cardinality({f \in {"nvmMarker", "goBin"} : h[f] # env[f]})
               + Cardinality((h.onPath \ env.onPath) \cup (env.onPath \ h.onPath)) = 1
          /\ env' = h
    /\ UNCHANGED <<pm, pc, selected_tools, already_installed, install_now, tools, idx,
                   success_tools, failed_tools, batch_result, calls, attempts,
                   update_status, menu_result>>
    /\ UNCHANGED <<selector_vars, service_vars>>

Step == BuildInstallPlan \/ Confirm \/ UpdatePackageList \/ InstallNext \/ Summary

Next == Step \/ ExternalChange

Spec == Init /\ [][Next]_vars

\* the program is never suspended for ever: every prompt is answered and every
\* started process ends
FairSpec == Spec /\ WF_vars(Step)

-----------------------------------------------------------------------------
(* The selector: parse_multi_select_indices called once, and the prompt loop *)
(* of multi_select_from_list                                                  *)

\* longest text handed to the parser
MaxLen == 4

\* most items of a menu
MaxItems == 2

\* longest text entered at the prompt
MaxEntry == 2

\* the characters the texts are written with
InputChars == {"0", "1", "2", ",", "-", " ", "m", "M"}

\* the characters the entries at the prompt are written with
EntryChars == {"1", ",", " ", "m", "b", "B"}

Texts(chars, n) == UNION {[1..k -> chars] : k \in 0..n}

\* keyword tables: none; an unordered list with a repetition; two keys equal
\* after lower() and an empty list; keys that read as a number and as a range;
\* lists with indices outside every menu and an empty key
KeywordTables ==
    {<<>>,
     <<[key |-> <<"m">>, indices |-> <<1, 0, 1>>]>>,
     <<[key |-> <<"M">>, indices |-> <<0>>], [key |-> <<"m">>, indices |-> <<>>]>>,
     <<[key |-> <<"1">>, indices |-> <<1>>],
       [key |-> <<"1", "-", "2">>, indices |-> <<0>>],
       [key |-> <<"0">>, indices |-> <<-1, 0>>]>>,
     <<[key |-> <<"m">>, indices |-> <<0, MaxItems, -1>>],
       [key |-> <<>>, indices |-> <<0>>]>>}

\* the tables the prompt loop is run with: none, and one keyword
PromptKeywordTables == {t \in KeywordTables : t = <<>> \/ t[1].indices = <<1, 0, 1>>}

\* nothing is being installed
InstallIdle ==
    /\ pm = APT
    /\ env = [onPath |-> {}, nvmMarker |-> FALSE, goBin |-> FALSE]
    /\ pc = "menu"
    /\ selected_tools = <<>>
    /\ already_installed = <<>>
    /\ install_now = <<>>
    /\ tools = <<>>
    /\ idx = 1
    /\ success_tools = <<>>
    /\ failed_tools = <<>>
    /\ batch_result = "none"
    /\ calls = <<>>
    /\ attempts = <<>>
    /\ update_status = "none"
    /\ menu_result = "none"
    /\ externals = 0

ParseInit ==
    /\ InstallIdle
    /\ ServicesIdle
    /\ n_items \in 0..MaxItems
    /\ keywords \in KeywordTables
    /\ raw_text = <<>>
    /\ allow_back = TRUE
    /\ parsed = Parsed(None, None)
    /\ sel_pc = "call"
    /\ sel_result = None
    /\ last_shown = None

\* one call of parse_multi_select_indices, on any text
Parse ==
    /\ sel_pc = "call"
    /\ \E raw_input \in Texts(InputChars, MaxLen) :
          /\ raw_text' = raw_input
          /\ parsed' = parse_multi_select_indices(raw_input, n_items, keywords)
    /\ sel_pc' = "returned"
    /\ UNCHANGED <<n_items, keywords, allow_back, sel_result, last_shown>>
    /\ UNCHANGED <<install_vars, service_vars>>

ParseNext == Parse

ParseSpec == ParseInit /\ [][ParseNext]_vars

\* multi_select_from_list as install_menu calls it: back_value="b"
back_value == <<"b">>

\* normalized_back = (back_value or "b").strip().lower()
normalized_back == Lower(Strip(IF back_value = <<>> THEN <<"b">> ELSE back_value))

SelectInit ==
    /\ InstallIdle
    /\ ServicesIdle
    /\ n_items \in 0..MaxItems
    /\ keywords \in PromptKeywordTables
    /\ allow_back \in BOOLEAN
    /\ raw_text = <<>>
    /\ parsed = Parsed(None, None)
    /\ sel_pc = "prompt"
    /\ sel_result = None
    /\ last_shown = None

\* multi_select_from_list returns before it has an accepted input
AfterParseReturnsOnError(r) == "returned"

\* lines 279-287: continue after an error, return otherwise
AfterParse(r) == IF r.error # None THEN "prompt" ELSE "returned"

\* lines 270-287: one turn of the while loop, the user typing one of entries
Choose(entries) ==
    /\ sel_pc = "prompt"
    /\ \E entered \in entries :
          LET choice == Lower(Strip(entered))
          IN  /\ raw_text' = entered
              /\ IF allow_back /\ choice = normalized_back
                 THEN /\ sel_result' = None
                      /\ sel_pc' = "returned"
                      /\ UNCHANGED <<parsed, last_shown>>
                 ELSE LET r == parse_multi_select_indices(choice, n_items, keywords)
                      IN  /\ parsed' = r
                          /\ sel_pc' = AfterParse(r)
                          /\ IF r.error # None
                             THEN /\ last_shown' = r.error
                                  /\ sel_result' = sel_result
                             ELSE /\ sel_result' = r.indices
                                  /\ last_shown' = last_shown
    /\ UNCHANGED <<n_items, keywords, allow_back>>
    /\ UNCHANGED <<install_vars, service_vars>>

EnterChoices == Choose(Texts(EntryChars, MaxEntry))

SelectNext == EnterChoices

SelectSpec == SelectInit /\ [][SelectNext]_vars

-----------------------------------------------------------------------------
(* install_menu from the display of the catalog to the end of the batch *)

\* the tools whose detection differs between the hosts of the menu; every other
\* tool of the catalog is installed
MenuSample == {"htop", "go", "brew"}

\* the commands the detections of the whole catalog look for
CatalogCommands(p) == {DetectionCommand(TOOL_ORDER[i], p) : i \in 1..Len(TOOL_ORDER)}

MenuHosts(p) ==
    [onPath : {(CatalogCommands(p) \cup {"bash"}) \ {DetectionCommand(tool, p) : tool \in D} :
                  D \in SUBSET MenuSample},
     nvmMarker : {TRUE},
     goBin : {FALSE}]

\* a menu that lists the catalog backwards
_all_tools_reversed == [i \in 1..Len(TOOL_ORDER) |-> TOOL_ORDER[Len(TOOL_ORDER) + 1 - i]]

\* line 438: tools = self._all_tools(), a copy of TOOL_ORDER
_all_tools == TOOL_ORDER

\* list(range(len(tools)))
RangeList(n) == [i \in 1..n |-> i - 1]

missing_indices_installed(catalog, p, e) ==
    SelectSeq(RangeList(Len(catalog)), LAMBDA i : _is_installed(catalog[i + 1], p, e))

\* line 455: [i for i, tool in enumerate(tools) if not self._is_installed(tool)]
missing_indices(catalog, p, e) ==
    SelectSeq(RangeList(Len(catalog)), LAMBDA i : ~_is_installed(catalog[i + 1], p, e))

\* lines 456-461
special_keywords(catalog, p, e) ==
    << [key |-> <<"a", "l", "l">>, indices |-> RangeList(Len(catalog))],
       [key |-> <<"*">>, indices |-> RangeList(Len(catalog))],
       [key |-> <<"m", "i", "s", "s", "i", "n", "g">>,
        indices |-> missing_indices(catalog, p, e)],
       [key |-> <<"m">>, indices |-> missing_indices(catalog, p, e)] >>

\* what the user types at the prompt of the menu
MenuEntries ==
    { <<"m", "i", "s", "s", "i", "n", "g">>, <<"m">>, <<"M", " ">>, <<"a", "l", "l">>,
      <<"b">>, <<>>, <<"1">>, <<"2">>, <<"1", "6", ",", "1">>, <<"1", "8">> }

MenuInit ==
    /\ pm \in SampleManagers
    /\ env \in MenuHosts(pm)
    /\ pc = "menu"
    /\ selected_tools = <<>>
    /\ already_installed = <<>>
    /\ install_now = <<>>
    /\ tools = <<>>
    /\ idx = 1
    /\ success_tools = <<>>
    /\ failed_tools = <<>>
    /\ batch_result = "none"
    /\ calls = <<>>
    /\ attempts = <<>>
    /\ update_status = "none"
    /\ menu_result = "none"
    /\ externals = 0
    /\ SelectorIdle
    /\ ServicesIdle

\* lines 438-468: the catalog with its install status, the keyword table, and
\* the call of multi_select_from_list up to its first prompt
ShowMenu ==
    /\ pc = "menu"
    /\ LET shown == PlanHost(_all_tools, env)
       IN  /\ calls' = calls \o DetectionCallsOf(_all_tools, env)
                             \o DetectionCallsOf(_all_tools, shown)
           /\ env' = PlanHost(_all_tools, shown)
           /\ keywords' = special_keywords(_all_tools, pm, shown)
    /\ n_items' = Len(_all_tools)
    /\ allow_back' = TRUE
    /\ sel_pc' = "prompt"
    /\ pc' = "select"
    /\ UNCHANGED <<raw_text, parsed, sel_result, last_shown>>
    /\ UNCHANGED <<pm, selected_tools, already_installed, install_now, tools, idx,
                   success_tools, failed_tools, batch_result, attempts, update_status,
                   menu_result, externals>>
    /\ UNCHANGED service_vars

\* multi_select_from_list, lines 270-287, at the prompt of the menu
EnterMenuChoices ==
    /\ pc = "select"
    /\ Choose(MenuEntries)

\* lines 469-477: the return of multi_select_from_list
ResolveSelection ==
    /\ pc = "select"
    /\ sel_pc = "returned"
    /\ sel_pc' = "idle"
    /\ IF sel_result = None \/ sel_result = Some(<<>>)
       THEN /\ menu_result' = "False"
            /\ pc' = "done"
            /\ selected_tools' = selected_tools
       ELSE /\ selected_tools' = [k \in 1..Len(sel_result.value) |->
                                     _all_tools[sel_result.value[k] + 1]]
            /\ pc' = "plan"
            /\ menu_result' = menu_result
    /\ UNCHANGED <<n_items, keywords, allow_back, raw_text, parsed, sel_result, last_shown>>
    /\ UNCHANGED <<pm, env, already_installed, install_now, tools, idx, success_tools,
                   failed_tools, batch_result, calls, attempts, update_status, externals>>
    /\ UNCHANGED service_vars

MenuNext == ShowMenu \/ EnterMenuChoices \/ ResolveSelection \/ Step

MenuSpec == MenuInit /\ [][MenuNext]_vars

-----------------------------------------------------------------------------
(* distro.py: detect_distro and _detect_package_manager *)

\* detections in one run of the process
MaxDetect == 2

\* binaries installed or removed while the process runs
MaxHostChange == 1

\* a line KEY=value of /etc/os-release: the words of the value as written, and
\* whether the value stands in double quotes
Line(key, quoted, words) == [key |-> key, quoted |-> quoted, words |-> words]

\* str.lower() on the words of the files of the model
LowerWord(w) ==
    CASE w = "Ubuntu" -> "ubuntu"
      [] w = "Debian" -> "debian"
      [] w = "RHEL"   -> "rhel"
      [] OTHER        -> w

\* line.split("=", 1)[1].strip('"').lower(): the quotes go, the case is folded;
\* a value of several words stays one string, which is no distribution ID
IdOf(line) == IF Len(line.words) = 1 THEN LowerWord(line.words[1]) ELSE "several words"

\* line.split("=", 1)[1].strip('"').lower().split()
IdLikeOf(line) == [k \in 1..Len(line.words) |-> LowerWord(line.words[k])]

\* lines 61-77: the loop over the lines; a later line overrides an earlier one
RECURSIVE ReadLines(_, _)
ReadLines(lines, info) ==
    IF lines = <<>> THEN info
    ELSE LET line == Head(lines)
         IN  ReadLines(Tail(lines),
                 IF line.key = "ID" THEN [info EXCEPT !.id = IdOf(line)]
                 ELSE IF line.key = "ID_LIKE" THEN [info EXCEPT !.id_like = IdLikeOf(line)]
                 ELSE info)

\* lines 101-114: the distribution IDs of each branch, in the order of the chain
IdBranches ==
    << [ids |-> {"debian", "ubuntu", "linuxmint", "pop", "elementary", "zorin"}, pm |-> APT],
       [ids |-> {"fedora"}, pm |-> DNF],
       [ids |-> {"rhel", "centos", "rocky", "alma"}, pm |-> DNF],
       [ids |-> {"arch"}, pm |-> PACMAN],
       [ids |-> {"alpine"}, pm |-> APK],
       [ids |-> {"opensuse", "opensuse-leap", "opensuse-tumbleweed", "sles"},
        pm |-> ZYPPER] >>

\* lines 116-124: the families of each branch, in the order of the chain
IdLikeBranches ==
    << [ids |-> {"debian"}, pm |-> APT],
       [ids |-> {"fedora", "rhel"}, pm |-> DNF],
       [ids |-> {"arch"}, pm |-> PACMAN],
       [ids |-> {"suse"}, pm |-> ZYPPER] >>

\* lines 129-140: the executables of each branch, in the order of the chain
ProbeOrder ==
    << [cmd |-> "apt", pm |-> APT], [cmd |-> "dnf", pm |-> DNF],
       [cmd |-> "yum", pm |-> YUM], [cmd |-> "pacman", pm |-> PACMAN],
       [cmd |-> "apk", pm |-> APK], [cmd |-> "zypper", pm |-> ZYPPER] >>

\* the first branch of an if/elif chain one of the given names is in, 0 if none
RECURSIVE FirstBranch(_, _, _)
FirstBranch(branches, names, k) ==
    IF k > Len(branches) THEN 0
    ELSE IF branches[k].ids \cap names # {} THEN k
    ELSE FirstBranch(branches, names, k + 1)

\* lines 129-142: check_command_exists down the chain until one is found; the
\* result keeps the commands that were looked up
RECURSIVE ProbeFrom(_, _)
ProbeFrom(k, e) ==
    IF k > Len(ProbeOrder)
    THEN [pm |-> UNKNOWN, probed |-> [i \in 1..Len(ProbeOrder) |-> ProbeOrder[i].cmd]]
    ELSE IF check_command_exists(ProbeOrder[k].cmd, e)
    THEN [pm |-> ProbeOrder[k].pm, probed |-> [i \in 1..k |-> ProbeOrder[i].cmd]]
    ELSE ProbeFrom(k + 1, e)

\* a detection that looks at the family before the distribution ID
_detect_package_manager_family_first(distro_id, id_like, e) ==
    LET by_id == FirstBranch(IdBranches, {distro_id}, 1)
        by_like == FirstBranch(IdLikeBranches, {id_like[i] : i \in 1..Len(id_like)}, 1)
    IN  IF by_like # 0 THEN [pm |-> IdLikeBranches[by_like].pm, probed |-> <<>>]
        ELSE IF by_id # 0 THEN [pm |-> IdBranches[by_id].pm, probed |-> <<>>]
        ELSE ProbeFrom(1, e)

\* _detect_package_manager: the package manager and the commands it looked up
_detect_package_manager(distro_id, id_like, e) ==
    LET by_id == FirstBranch(IdBranches, {distro_id}, 1)
        by_like == FirstBranch(IdLikeBranches, {id_like[i] : i \in 1..Len(id_like)}, 1)
    IN  IF by_id # 0 THEN [pm |-> IdBranches[by_id].pm, probed |-> <<>>]
        ELSE IF by_like # 0 THEN [pm |-> IdLikeBranches[by_like].pm, probed |-> <<>>]
        ELSE ProbeFrom(1, e)

\* detect_distro: the DistroInfo, whether the file was opened, and the
\* commands that were looked up
detect_distro(file, e) ==
    LET info == IF file.exists
                THEN ReadLines(file.lines, [id |-> "unknown", id_like |-> <<>>])
                ELSE [id |-> "unknown", id_like |-> <<>>]
        r == _detect_package_manager(info.id, info.id_like, e)
    IN  [id |-> info.id, id_like |-> info.id_like, package_manager |-> r.pm,
         opened |-> file.exists, probed |-> r.probed]

\* the files of the model
OsReleaseFiles ==
    { [exists |-> FALSE, lines |-> <<>>],
      [exists |-> TRUE, lines |-> <<>>],
      [exists |-> TRUE, lines |-> <<Line("NAME", TRUE, <<"Ubuntu">>),
                                    Line("ID", FALSE, <<"ubuntu">>),
                                    Line("ID_LIKE", FALSE, <<"debian">>)>>],
      [exists |-> TRUE, lines |-> <<Line("ID", TRUE, <<"Ubuntu">>)>>],
      [exists |-> TRUE, lines |-> <<Line("ID", TRUE, <<"rocky">>),
                                    Line("ID_LIKE", TRUE, <<"RHEL", "centos", "fedora">>)>>],
      [exists |-> TRUE, lines |-> <<Line("ID", FALSE, <<"alpine">>),
                                    Line("ID_LIKE", FALSE, <<"debian">>)>>],
      [exists |-> TRUE, lines |-> <<Line("ID_LIKE", TRUE, <<"suse", "arch">>),
                                    Line("ID", FALSE, <<"arch">>)>>],
      [exists |-> TRUE, lines |-> <<Line("ID", FALSE, <<"amzn">>),
                                    Line("ID_LIKE", TRUE, <<"centos", "rhel", "fedora">>)>>],
      [exists |-> TRUE, lines |-> <<Line("ID", FALSE, <<"garuda">>),
                                    Line("ID_LIKE", FALSE, <<"arch">>)>>],
      [exists |-> TRUE, lines |-> <<Line("ID", FALSE, <<"nixos">>),
                                    Line("ID", FALSE, <<"void">>),
                                    Line("VERSION_ID", TRUE, <<"24.05">>)>>],
      [exists |-> TRUE, lines |-> <<Line("ID", TRUE, <<"clear", "linux">>),
                                    Line("ID_LIKE", FALSE, <<"centos">>)>>] }

\* the binaries the detection looks for
ManagerBinaries == {ProbeOrder[i].cmd : i \in 1..Len(ProbeOrder)}

\* the binaries that others install or remove while the process runs
ChangingBinaries == {"apt", "dnf"}

DistroInit ==
    /\ InstallIdle
    /\ SelectorIdle
    /\ CliIdle
    /\ RunnerIdle
    /\ SshIdle
    /\ NginxIdle
    /\ os_release \in OsReleaseFiles
    /\ executables \in SUBSET ManagerBinaries
    /\ detections = <<>>
    /\ host_changes = 0

\* one call of detect_distro by a component: PackagesManager.__init__
\* (packages.py 179), get_package_manager (distro.py 151, called by shell.py 91
\* and by get_install_command / get_update_command without a manager), or the
\* Docker installer (installer.py 60)
Detect(who) ==
    /\ Len(detections) < MaxDetect
    /\ LET d == detect_distro(os_release, [onPath |-> executables])
       IN  detections' = Append(detections,
               [who |-> who, id |-> d.id, id_like |-> d.id_like,
                package_manager |-> d.package_manager,
                opened |-> d.opened, probed |-> d.probed,
                file |-> os_release, onPath |-> executables])
    /\ UNCHANGED <<os_release, executables, host_changes>>
    /\ UNCHANGED not_distro_vars

NewPackagesManager == Detect("PackagesManager")

GetPackageManager == Detect("get_package_manager")

DockerDetect == Detect("DockerInstaller")

\* somebody installs or removes a package-manager binary
BinaryChange ==
    /\ host_changes < MaxHostChange
    /\ host_changes' = host_changes + 1
    /\ \E b \in ChangingBinaries :
          executables' = IF b \in executables THEN executables \ {b}
                         ELSE executables \cup {b}
    /\ UNCHANGED <<os_release, detections>>
    /\ UNCHANGED not_distro_vars

DistroNext == NewPackagesManager \/ GetPackageManager \/ DockerDetect \/ BinaryChange

DistroSpec == DistroInit /\ [][DistroNext]_vars

-----------------------------------------------------------------------------
(* cli.py: main and VPSToolbox.run *)

\* main menus shown in one run
MaxMenus == 3

\* the categories of main_menu
Categories == 0..4

VerifySudoCommand == <<"sudo", "-v">>

\* verify_sudo: returncode == 0
verify_sudo(raw) == run_command(VerifySudoCommand, raw, FALSE).rc = 0

\* what the interpreter exits with: 0 when main returned, as the console
\* script does sys.exit(main()) with main returning None, and 1 when an
\* exception left main
ExitAfterReturn == Some(0)
ExitAfterException == Some(1)

CliInit ==
    /\ InstallIdle
    /\ SelectorIdle
    /\ DistroIdle
    /\ RunnerIdle
    /\ SshIdle
    /\ NginxIdle
    /\ cli_pc = "start"
    /\ exit_code = None
    /\ menu_choices = <<>>
    /\ cli_printed = <<>>

\* main, lines 399-406, around VPSToolbox(): the managers are constructed, or
\* one of the constructors raises
Construct ==
    /\ cli_pc = "start"
    /\ \E outcome \in {"constructed", "raised", "interrupted"} :
          CASE outcome = "constructed" ->
                  /\ cli_pc' = "verify"
                  /\ UNCHANGED <<exit_code, cli_printed>>
            [] outcome = "raised" ->
                  /\ cli_pc' = "error"
                  /\ cli_printed' = Append(cli_printed, "An error occurred: {e}")
                  /\ exit_code' = ExitAfterException
            [] outcome = "interrupted" ->
                  /\ cli_pc' = "interrupted"
                  /\ exit_code' = ExitAfterReturn
                  /\ UNCHANGED cli_printed
    /\ UNCHANGED menu_choices
    /\ UNCHANGED not_cli_vars

\* run, lines 42-45: without sudo the two messages are printed and run returns
VerifySudo ==
    /\ cli_pc = "verify"
    /\ \E raw \in SubprocessRun({<<>>}, "None") :
          IF verify_sudo(raw)
          THEN /\ cli_pc' = "menu"
               /\ UNCHANGED <<exit_code, cli_printed>>
          ELSE /\ cli_pc' = "no sudo"
               /\ cli_printed' = cli_printed \o
                     <<"This tool requires sudo privileges.",
                       "Please run with sudo or configure sudo permissions.">>
               /\ exit_code' = ExitAfterReturn
    /\ UNCHANGED menu_choices
    /\ UNCHANGED not_cli_vars

\* run, lines 47-49, and main_menu: the menu is shown; the user quits, or
\* chooses a category whose menu returns, raises or is interrupted
MainMenu ==
    /\ cli_pc = "menu"
    /\ \/ /\ menu_choices' = Append(menu_choices, None)
          /\ cli_pc' = "quit"
          /\ exit_code' = ExitAfterReturn
          /\ UNCHANGED cli_printed
       \/ /\ Len(menu_choices) < MaxMenus
          /\ \E choice \in Categories, outcome \in {"returned", "raised", "interrupted"} :
                /\ menu_choices' = Append(menu_choices, Some(choice))
                /\ CASE outcome = "returned" ->
                           /\ cli_pc' = "menu"
                           /\ UNCHANGED <<exit_code, cli_printed>>
                     [] outcome = "raised" ->
                           /\ cli_pc' = "error"
                           /\ cli_printed' = Append(cli_printed, "An error occurred: {e}")
                           /\ exit_code' = ExitAfterException
                     [] outcome = "interrupted" ->
                           /\ cli_pc' = "interrupted"
                           /\ exit_code' = ExitAfterReturn
                           /\ UNCHANGED cli_printed
    /\ UNCHANGED not_cli_vars

CliNext == Construct \/ VerifySudo \/ MainMenu

CliSpec == CliInit /\ [][CliNext]_vars

-----------------------------------------------------------------------------
(* command.py: run_command and run_sudo called on their own *)

\* lines 39-40 and 84-85: a command given as one string is split at white space
Argv(command) ==
    IF command.is_str THEN SelectSeq(command.text, LAMBDA tok : ~IsSpace(tok))
    ELSE command.text

\* the commands of the model: lists and strings, the empty ones among them
RunnerCommands ==
    { [is_str |-> FALSE, text |-> <<"nginx", "-t">>],
      [is_str |-> FALSE, text |-> <<>>],
      [is_str |-> TRUE, text |-> <<"systemctl", " ", "reload", " ", " ", "nginx">>],
      [is_str |-> TRUE, text |-> <<" ">>] }

\* the timeouts a caller hands over
RunnerTimeouts == {"None", "30"}

\* subprocess.run on an argv: without a first element nothing can be launched
\* and an exception that is none of the three named ones is raised
Launch(argv, timeout) ==
    IF argv = <<>> THEN {RawOSError}
    ELSE SubprocessRun({<<>>, <<"ok", "\n">>}, timeout)

RunnerInit ==
    /\ InstallIdle
    /\ SelectorIdle
    /\ DistroIdle
    /\ CliIdle
    /\ SshIdle
    /\ NginxIdle
    /\ runner_pc = "call"
    /\ runner_call \in [command : RunnerCommands, check : BOOLEAN,
                        timeout : RunnerTimeouts, sudo : BOOLEAN]
    /\ runner_raw = None
    /\ runner_result = None

\* run_command(command, check=check, timeout=timeout)
RunCommand ==
    /\ runner_pc = "call"
    /\ ~runner_call.sudo
    /\ \E raw \in Launch(Argv(runner_call.command), runner_call.timeout) :
          /\ runner_raw' = raw
          /\ runner_result' = run_command(Argv(runner_call.command), raw, runner_call.check)
    /\ runner_pc' = "returned"
    /\ UNCHANGED runner_call
    /\ UNCHANGED not_runner_vars

\* run_sudo(command, check=check, timeout=timeout)
RunSudo ==
    /\ runner_pc = "call"
    /\ runner_call.sudo
    /\ \E raw \in Launch(SudoCommand(Argv(runner_call.command)), runner_call.timeout) :
          /\ runner_raw' = raw
          /\ runner_result' = run_sudo(Argv(runner_call.command), raw)
    /\ runner_pc' = "returned"
    /\ UNCHANGED runner_call
    /\ UNCHANGED not_runner_vars

RunnerNext == RunCommand \/ RunSudo

RunnerSpec == RunnerInit /\ [][RunnerNext]_vars

-----------------------------------------------------------------------------
(* ssh.py: _modify_config and harden_all *)

SshConfigPath == "/etc/ssh/sshd_config"

\* get_backup_path("ssh", "sshd_config")
SshBackupPath == "/var/backups/zappy/ssh/ssh_sshd_config_{timestamp}.bak"

ReadConfigCommand == <<"cat", SshConfigPath>>
BackupConfigCommand == <<"cp", SshConfigPath, SshBackupPath>>
RestoreConfigCommand == <<"cp", SshBackupPath, SshConfigPath>>
WriteConfigCommand == <<"tee", SshConfigPath>>
TestConfigCommand == <<"sshd", "-t">>
RestartSshCommand == <<"systemctl", "restart", "sshd">>

\* a line of sshd_config: "Setting value", or "#Setting value" when commented
ConfigLine(setting, value, commented) ==
    [setting |-> setting, value |-> value, commented |-> commented]

\* lines 114-123 and 327-333: every line of the setting, commented or not,
\* becomes the new line; without such a line the new line is added at the end
SetLine(content, setting, value) ==
    IF \E k \in 1..Len(content) : content[k].setting = setting
    THEN [k \in 1..Len(content) |->
             IF content[k].setting = setting THEN ConfigLine(setting, value, FALSE)
             ELSE content[k]]
    ELSE Append(content, ConfigLine(setting, value, FALSE))

\* lines 317-323
hardening_settings ==
    << <<"PermitRootLogin", "prohibit-password">>, <<"PubkeyAuthentication", "yes">>,
       <<"MaxAuthTries", "3">>, <<"ClientAliveInterval", "300">>,
       <<"ClientAliveCountMax", "2">> >>

\* lines 325-333: the loop over hardening_settings
RECURSIVE Harden(_, _)
Harden(content, k) ==
    IF k > Len(hardening_settings) THEN content
    ELSE Harden(SetLine(content, hardening_settings[k][1], hardening_settings[k][2]), k + 1)

\* new_content of the operation
NewContent(op, content) ==
    IF op.kind = "harden" THEN Harden(content, 1)
    ELSE SetLine(content, op.setting, op.value)

\* the files of the model
SshConfigs ==
    { <<>>,
      <<ConfigLine("Port", "22", FALSE)>>,
      <<ConfigLine("PermitRootLogin", "yes", TRUE), ConfigLine("Port", "22", TRUE),
        ConfigLine("PermitRootLogin", "yes", FALSE)>>,
      <<ConfigLine("PasswordAuthentication", "yes", FALSE),
        ConfigLine("MaxAuthTries", "6", FALSE)>> }

\* change_port, configure_root_login, configure_password_auth and harden_all
SshOperations ==
    { [kind |-> "modify", setting |-> "Port", value |-> "2222"],
      [kind |-> "modify", setting |-> "PermitRootLogin", value |-> "no"],
      [kind |-> "modify", setting |-> "PasswordAuthentication", value |-> "no"],
      [kind |-> "harden", setting |-> "", value |-> ""] }

SshInit ==
    /\ InstallIdle
    /\ SelectorIdle
    /\ DistroIdle
    /\ CliIdle
    /\ RunnerIdle
    /\ NginxIdle
    /\ ssh_pc = "start"
    /\ ssh_op \in SshOperations
    /\ sshd_config \in SshConfigs
    /\ ssh_backup = None
    /\ ssh_content = None
    /\ ssh_log = <<>>
    /\ ssh_result = "none"

Logged(command, ok) == [cmd |-> SudoCommand(command), ok |-> ok]

\* where the operation goes after backup_file, without a look at its result
AfterBackupUnchecked(op, ok) == IF op.kind = "harden" THEN "read" ELSE "write"

\* lines 109-111 and 304-307: where the operation goes after backup_file
AfterBackup(op, ok) ==
    IF ~ok THEN "done" ELSE IF op.kind = "harden" THEN "read" ELSE "write"

\* the entry: _modify_config reads first; harden_all asks first (line 298)
SshStart ==
    /\ ssh_pc = "start"
    /\ IF ssh_op.kind = "modify"
       THEN ssh_pc' = "read" /\ ssh_result' = ssh_result
       ELSE \E answer \in BOOLEAN :
               IF answer THEN ssh_pc' = "backup" /\ ssh_result' = ssh_result
               ELSE ssh_pc' = "done" /\ ssh_result' = "False"
    /\ UNCHANGED <<ssh_op, sshd_config, ssh_backup, ssh_content, ssh_log>>
    /\ UNCHANGED not_ssh_vars

\* lines 101-104 and 310-314: read_file_sudo, and the return on no content
SshRead ==
    /\ ssh_pc = "read"
    /\ \E raw \in SubprocessRun({sshd_config}, "None") :
          LET r == run_sudo(ReadConfigCommand, raw)
              content == IF r.success THEN Some(r.out) ELSE None
          IN  /\ ssh_log' = Append(ssh_log, Logged(ReadConfigCommand, r.success))
              /\ ssh_content' = content
              /\ IF content = None \/ content = Some(<<>>)
                 THEN ssh_pc' = "done" /\ ssh_result' = "False"
                 ELSE /\ ssh_pc' = IF ssh_op.kind = "harden" THEN "write" ELSE "backup"
                      /\ ssh_result' = ssh_result
    /\ UNCHANGED <<ssh_op, sshd_config, ssh_backup>>
    /\ UNCHANGED not_ssh_vars

\* lines 107-112 and 302-308: ensure_backup_dir, whose mkdir can raise, and
\* backup_file
SshBackup ==
    /\ ssh_pc = "backup"
    /\ \/ /\ ssh_pc' = "crashed"
          /\ UNCHANGED <<ssh_backup, ssh_log, ssh_result>>
       \/ \E raw \in SubprocessRun({<<>>}, "None") :
             LET r == run_sudo(BackupConfigCommand, raw)
             IN  /\ ssh_log' = Append(ssh_log, Logged(BackupConfigCommand, r.success))
                 /\ ssh_backup' = IF r.success THEN Some(sshd_config) ELSE ssh_backup
                 /\ ssh_pc' = AfterBackup(ssh_op, r.success)
                 /\ ssh_result' = IF AfterBackup(ssh_op, r.success) = "done" THEN "False"
                                  ELSE ssh_result
    /\ UNCHANGED <<ssh_op, sshd_config, ssh_content>>
    /\ UNCHANGED not_ssh_vars

\* lines 125-127 and 335-338: write_file_sudo; a tee that fails leaves the file
\* as it was or cut short
SshWrite ==
    /\ ssh_pc = "write"
    /\ \E outcome \in {"written", "untouched", "truncated"} :
          /\ ssh_log' = Append(ssh_log, Logged(WriteConfigCommand, outcome = "written"))
          /\ sshd_config' = CASE outcome = "written" -> NewContent(ssh_op, ssh_content.value)
                              [] outcome = "untouched" -> sshd_config
                              [] outcome = "truncated" -> <<>>
          /\ IF outcome = "written"
             THEN ssh_pc' = "test" /\ ssh_result' = ssh_result
             ELSE ssh_pc' = "done" /\ ssh_result' = "False"
    /\ UNCHANGED <<ssh_op, ssh_backup, ssh_content>>
    /\ UNCHANGED not_ssh_vars

\* lines 131-142 and 341-343: sshd -t; _modify_config asks before it restores
SshTest ==
    /\ ssh_pc = "test"
    /\ \E raw \in SubprocessRun({<<>>}, "None") :
          LET r == run_sudo(TestConfigCommand, raw)
          IN  /\ ssh_log' = Append(ssh_log, Logged(TestConfigCommand, r.success))
              /\ IF r.success
                 THEN IF ssh_op.kind = "harden"
                      THEN ssh_pc' = "restart" /\ ssh_result' = ssh_result
                      ELSE ssh_pc' = "done" /\ ssh_result' = "True"
                 ELSE IF ssh_op.kind = "harden"
                      THEN ssh_pc' = "restore" /\ ssh_result' = ssh_result
                      ELSE \E answer \in BOOLEAN :
                              IF answer THEN ssh_pc' = "restore" /\ ssh_result' = ssh_result
                              ELSE ssh_pc' = "done" /\ ssh_result' = "False"
    /\ UNCHANGED <<ssh_op, sshd_config, ssh_backup, ssh_content>>
    /\ UNCHANGED not_ssh_vars

\* lines 137-139 and 344-347: backup_file the other way round, its result not
\* looked at
SshRestore ==
    /\ ssh_pc = "restore"
    /\ \E raw \in SubprocessRun({<<>>}, "None") :
          LET r == run_sudo(RestoreConfigCommand, raw)
          IN  /\ ssh_log' = Append(ssh_log, Logged(RestoreConfigCommand, r.success))
              /\ sshd_config' = IF r.success THEN ssh_backup.value ELSE sshd_config
    /\ ssh_pc' = "done"
    /\ ssh_result' = "False"
    /\ UNCHANGED <<ssh_op, ssh_backup, ssh_content>>
    /\ UNCHANGED not_ssh_vars

\* lines 353-359: the restart of the service, if the user wants it
SshRestart ==
    /\ ssh_pc = "restart"
    /\ \E answer \in BOOLEAN :
          IF answer
          THEN \E raw \in SubprocessRun({<<>>}, "None") :
                  ssh_log' = Append(ssh_log,
                      Logged(RestartSshCommand, run_sudo(RestartSshCommand, raw).success))
          ELSE ssh_log' = ssh_log
    /\ ssh_pc' = "done"
    /\ ssh_result' = "True"
    /\ UNCHANGED <<ssh_op, sshd_config, ssh_backup, ssh_content>>
    /\ UNCHANGED not_ssh_vars

SshNext == SshStart \/ SshRead \/ SshBackup \/ SshWrite \/ SshTest \/ SshRestore \/ SshRestart

SshSpec == SshInit /\ [][SshNext]_vars

-----------------------------------------------------------------------------
(* nginx/manager.py: enable_domain *)

\* the names of the model, as sorted() orders them
DomainOrder == <<"a.example", "b.example">>
Domains == {DomainOrder[i] : i \in 1..Len(DomainOrder)}

\* what a name can be in sites-enabled: nothing, a symlink to its file in
\* sites-available, a symlink to some other place, or a regular file
EntryKinds == {"absent", "link", "foreign link", "file"}

\* self.sites_available / domain_name and self.sites_enabled / domain_name
SourcePath(name) == <<"/etc/nginx/sites-available", name>>
DestPath(name) == <<"/etc/nginx/sites-enabled", name>>

LinkCommand(name) == <<"ln", "-s", SourcePath(name), DestPath(name)>>
RemoveLinkCommand(name) == <<"rm", DestPath(name)>>
NginxTestCommand == <<"nginx", "-t">>
NginxReloadCommand == <<"systemctl", "reload", "nginx">>

\* get_domains, lines 60-87, and line 228: the available names that are not a
\* symlink into sites-available, in sorted order
Disabled(available, enabled) ==
    SelectSeq(DomainOrder, LAMBDA name : name \in available /\ enabled[name] # "link")

\* line 245: dest.exists() or dest.is_symlink()
DestTaken(enabled, name) == enabled[name] # "absent"

NginxInit ==
    /\ InstallIdle
    /\ SelectorIdle
    /\ DistroIdle
    /\ CliIdle
    /\ RunnerIdle
    /\ SshIdle
    /\ nginx_pc = "start"
    /\ nginx_request \in {None} \cup {Some(name) : name \in Domains}
    /\ nginx_domain = None
    /\ sites_available \in SUBSET Domains
    /\ sites_enabled \in [Domains -> EntryKinds]
    /\ nginx_log = <<>>
    /\ nginx_result = "none"

\* an enable_domain that reloads whatever the test said
AfterTestReloadAnyway(ok) == "reload"

\* lines 254-259: where enable_domain goes after test_config
AfterTest(ok) == IF ok THEN "reload" ELSE "revert"

\* lines 223-240: the name is given, or chosen among the disabled domains
NginxSelect ==
    /\ nginx_pc = "start"
    /\ IF nginx_request # None
       THEN /\ nginx_domain' = nginx_request
            /\ nginx_pc' = "link"
            /\ nginx_result' = nginx_result
       ELSE LET disabled == Disabled(sites_available, sites_enabled)
            IN  IF disabled = <<>>
                THEN /\ nginx_pc' = "done"
                     /\ nginx_result' = "False"
                     /\ nginx_domain' = nginx_domain
                ELSE \/ /\ nginx_pc' = "done"
                        /\ nginx_result' = "False"
                        /\ nginx_domain' = nginx_domain
                     \/ \E choice \in 0..(Len(disabled) - 1) :
                           /\ nginx_domain' = Some(disabled[choice + 1])
                           /\ nginx_pc' = "link"
                           /\ nginx_result' = nginx_result
    /\ UNCHANGED <<nginx_request, sites_available, sites_enabled, nginx_log>>
    /\ UNCHANGED not_nginx_vars

\* lines 242-252: the test of the destination and ln -s
NginxLink ==
    /\ nginx_pc = "link"
    /\ LET name == nginx_domain.value
       IN  IF DestTaken(sites_enabled, name)
           THEN /\ nginx_pc' = "done"
                /\ nginx_result' = "False"
                /\ UNCHANGED <<sites_enabled, nginx_log>>
           ELSE \E raw \in SubprocessRun({<<>>}, "None") :
                   LET r == run_sudo(LinkCommand(name), raw)
                   IN  /\ nginx_log' = Append(nginx_log,
                              [cmd |-> SudoCommand(LinkCommand(name)), ok |-> r.success])
                       /\ sites_enabled' = IF r.success
                                           THEN [sites_enabled EXCEPT ![name] = "link"]
                                           ELSE sites_enabled
                       /\ nginx_pc' = IF r.success THEN "test" ELSE "done"
                       /\ nginx_result' = IF r.success THEN nginx_result ELSE "False"
    /\ UNCHANGED <<nginx_request, nginx_domain, sites_available>>
    /\ UNCHANGED not_nginx_vars

\* line 254 and test_config, lines 469-479: nginx -t
NginxTest ==
    /\ nginx_pc = "test"
    /\ \E raw \in SubprocessRun({<<>>}, "None") :
          LET r == run_sudo(NginxTestCommand, raw)
          IN  /\ nginx_log' = Append(nginx_log,
                     [cmd |-> SudoCommand(NginxTestCommand), ok |-> r.success])
              /\ nginx_pc' = AfterTest(r.success)
    /\ UNCHANGED <<nginx_request, nginx_domain, sites_available, sites_enabled, nginx_result>>
    /\ UNCHANGED not_nginx_vars

\* lines 255-257: rm of the link, its result not looked at
NginxRevert ==
    /\ nginx_pc = "revert"
    /\ \E raw \in SubprocessRun({<<>>}, "None") :
          LET name == nginx_domain.value
              r == run_sudo(RemoveLinkCommand(name), raw)
          IN  /\ nginx_log' = Append(nginx_log,
                     [cmd |-> SudoCommand(RemoveLinkCommand(name)), ok |-> r.success])
              /\ sites_enabled' = IF r.success
                                  THEN [sites_enabled EXCEPT ![name] = "absent"]
                                  ELSE sites_enabled
    /\ nginx_pc' = "done"
    /\ nginx_result' = "False"
    /\ UNCHANGED <<nginx_request, nginx_domain, sites_available>>
    /\ UNCHANGED not_nginx_vars

\* lines 259-263 and reload, lines 487-495: systemctl reload nginx
NginxReload ==
    /\ nginx_pc = "reload"
    /\ \E raw \in SubprocessRun({<<>>}, "None") :
          LET r == run_sudo(NginxReloadCommand, raw)
          IN  /\ nginx_log' = Append(nginx_log,
                     [cmd |-> SudoCommand(NginxReloadCommand), ok |-> r.success])
              /\ nginx_result' = Str(r.success)
    /\ nginx_pc' = "done"
    /\ UNCHANGED <<nginx_request, nginx_domain, sites_available, sites_enabled>>
    /\ UNCHANGED not_nginx_vars

NginxNext == NginxSelect \/ NginxLink \/ NginxTest \/ NginxRevert \/ NginxReload

NginxSpec == NginxInit /\ [][NginxNext]_vars

-----------------------------------------------------------------------------
(* Properties *)

\* the tools install_package was called for, in the order of the calls
AttemptedTools == [i \in 1..Len(attempts) |-> attempts[i].tool]

\* the argvs of all install_package calls, in order
RECURSIVE CallsOf(_)
CallsOf(as) == IF as = <<>> THEN <<>> ELSE Head(as).calls \o CallsOf(Tail(as))

\* the for loop of the batch was left
LoopOver == pc \in {"summary", "crashed"} \/ batch_result # "none"

\* _execute_install_batch returned
BatchReturned == pc = "done" /\ batch_result # "none"

PackageManaged(tool) == ~_is_script_tool(tool)

UpdateCall == SudoCommand(get_update_command(pm))

\* the positions of calls that hold the package-index update command
UpdatePositions == {i \in 1..Len(calls) : calls[i] = UpdateCall}

\* C1: batch isolation. While the loop runs, install_package was called exactly
\* for the tools before the loop position, once each and in list order; when the
\* loop is left, it was called for every tool of the list, once each and in list
\* order, whatever the outcomes of the earlier tools were.
C1_BatchIsolation ==
    /\ pc = "install" => AttemptedTools = SubSeq(tools, 1, idx - 1)
    /\ LoopOver => AttemptedTools = tools

\* C1 witness: the loop is over, the first tool failed, and a later one was attempted
C1_Witness ==
    /\ pc = "summary"
    /\ Len(attempts) = 2
    /\ ~attempts[1].ok
    /\ attempts[1].nonzero
    /\ attempts[2].tool = tools[2]

IsUnknownCommand(argv) ==
    \/ Len(argv) >= 2 /\ SubSeq(argv, 1, 2) = UnknownCommand
    \/ Len(argv) >= 3 /\ SubSeq(argv, 2, 3) = UnknownCommand

\* C4 as stated: with the package manager UNKNOWN, neither the fallback update
\* command nor the fallback install command is handed to the Command Runner,
\* and a package-managed tool that is not installed at its turn is failed.
C4_UnknownManagerNeverRuns ==
    pm = UNKNOWN =>
        /\ \A i \in 1..Len(calls) : ~IsUnknownCommand(calls[i])
        /\ \A i \in 1..Len(attempts) :
              (PackageManaged(attempts[i].tool) /\ ~attempts[i].pre)
                  => ~attempts[i].ok

\* C5: when the batch returned, no tool is in both lists, each list is the
\* pending list restricted to its tools (so every tool is there once, in the
\* order of the pending list), every pending tool is in one of them, and the
\* value returned is True if and only if failed is empty.
C5_BatchResultPartition ==
    BatchReturned =>
        /\ \A i \in 1..Len(success_tools) : ~InSeq(success_tools[i], failed_tools)
        /\ success_tools = SelectSeq(tools, LAMBDA t : InSeq(t, success_tools))
        /\ failed_tools = SelectSeq(tools, LAMBDA t : InSeq(t, failed_tools))
        /\ \A i \in 1..Len(tools) :
              InSeq(tools[i], success_tools) \/ InSeq(tools[i], failed_tools)
        /\ Len(success_tools) + Len(failed_tools) = Len(tools)
        /\ (batch_result = "True") <=> (failed_tools = <<>>)

\* C5 witness: the batch returned False with one tool in each list
C5_Witness ==
    /\ BatchReturned
    /\ Len(success_tools) = 1
    /\ Len(failed_tools) = 1
    /\ batch_result = "False"

\* C6: a batch that was started always returns: under FairSpec, from the moment
\* _execute_install_batch is entered the run reaches its return, with every
\* pending tool in one of the two lists of the summary, whatever the commands do.
C6_BatchAlwaysCompletes ==
    (pc = "batch") ~> (BatchReturned /\ Len(success_tools) + Len(failed_tools) = Len(tools))

\* C6 witness: the batch returned after a launch failure or non-zero exit of an
\* installer and after the Go installer met an unmapped architecture
C6_Witness ==
    /\ BatchReturned
    /\ \E i \in 1..Len(attempts) : attempts[i].nonzero
    /\ \E i \in 1..Len(attempts) :
          /\ attempts[i].tool = "go"
          /\ ~attempts[i].ok /\ ~attempts[i].nonzero
          /\ attempts[i].calls = <<UnameCommand>>

\* C7: the package-index update command is not run before the batch is entered;
\* once the batch is past its first step the command was run exactly once, as the
\* last call before the calls of the install attempts, if a pending tool is
\* package-managed, and not at all if every pending tool is script-installed.
C7_UpdateOnceBeforeInstalls ==
    LET n == Len(calls) - Len(CallsOf(attempts))
    IN  /\ pc \in {"plan", "confirm", "batch"} => UpdatePositions = {}
        /\ (pc = "install" \/ LoopOver) =>
              /\ n >= 0
              /\ SubSeq(calls, n + 1, Len(calls)) = CallsOf(attempts)
              /\ UpdatePositions =
                    IF \E i \in 1..Len(tools) : PackageManaged(tools[i]) THEN {n} ELSE {}

\* C7 witness: two package-managed tools were attempted after one update
C7_Witness ==
    /\ pc = "summary"
    /\ Len(attempts) = 2
    /\ PackageManaged(tools[1]) /\ PackageManaged(tools[2])
    /\ ~attempts[1].pre /\ ~attempts[2].pre
    /\ Cardinality(UpdatePositions) = 1

\* C8: when the package-index update failed, the loop is still entered and,
\* once it is left, every pending tool was attempted; the batch then returns
\* True if and only if every attempt returned True.
C8_UpdateFailureDoesNotAbort ==
    update_status = "failed" =>
        /\ pc # "crashed"
        /\ LoopOver => AttemptedTools = tools
        /\ BatchReturned =>
              ((batch_result = "True") <=> \A i \in 1..Len(attempts) : attempts[i].ok)

\* C8 witness: the update failed, a tool was installed after it and the batch
\* returned True
C8_Witness ==
    /\ update_status = "failed"
    /\ BatchReturned
    /\ batch_result = "True"
    /\ \E i \in 1..Len(attempts) : ~attempts[i].pre /\ attempts[i].ok

\* the argvs that are detection commands
IsDetectionCall(argv) == argv = NvmMarkerCommand

\* C9: a tool that is detected as installed when its turn comes is recorded as
\* succeeded, and its turn hands nothing but the detection itself to the Command
\* Runner: no installer command and no package-manager install command.
C9_RecheckSkipsInstaller ==
    \A i \in 1..Len(attempts) :
        attempts[i].pre =>
            /\ attempts[i].ok
            /\ InSeq(attempts[i].tool, success_tools)
            /\ ~InSeq(attempts[i].tool, failed_tools)
            /\ \A k \in 1..Len(attempts[i].calls) : IsDetectionCall(attempts[i].calls[k])

\* C9 witness: a tool of the pending list, so not detected when the plan was
\* made, was detected at its turn
C9_Witness ==
    \E i \in 1..Len(attempts) :
        /\ attempts[i].pre
        /\ InSeq(attempts[i].tool, install_now)
        /\ InSeq(attempts[i].tool, success_tools)

\* the two lists partition the selection by what detection says on host e
IsPlanOf(selected, already, now, p, e) ==
    /\ \A i \in 1..Len(already) : ~InSeq(already[i], now)
    /\ \A i \in 1..Len(selected) :
          /\ InSeq(selected[i], already) <=> _is_installed(selected[i], p, e)
          /\ InSeq(selected[i], now) <=> ~_is_installed(selected[i], p, e)
    /\ \A i \in 1..Len(already) : InSeq(already[i], selected)
    /\ \A i \in 1..Len(now) : InSeq(now[i], selected)
    /\ Len(already) + Len(now) = Len(selected)
    /\ \A i, j \in 1..Len(selected) :
          /\ (i < j /\ InSeq(selected[i], already) /\ InSeq(selected[j], already)) =>
                \E k, l \in 1..Len(already) :
                    k < l /\ already[k] = selected[i] /\ already[l] = selected[j]
          /\ (i < j /\ InSeq(selected[i], now) /\ InSeq(selected[j], now)) =>
                \E k, l \in 1..Len(now) :
                    k < l /\ now[k] = selected[i] /\ now[l] = selected[j]

\* C10: the step that makes the plan leaves two disjoint lists whose union is
\* the selection: already_installed holds exactly the selected tools detected on
\* the host of that moment, install_now exactly the others, each in selection order.
C10_PlanPartition ==
    [][pc = "plan" =>
          IsPlanOf(selected_tools, already_installed', install_now', pm, env)]_vars

\* C10 witness: a plan with a tool in each list
C10_Witness ==
    /\ pc = "confirm"
    /\ Len(already_installed) = 1
    /\ Len(install_now) = 1

\* a suffix of argvs, all of them detection commands
OnlyDetectionCalls(before, after) ==
    /\ Len(after) >= Len(before)
    /\ SubSeq(after, 1, Len(before)) = before
    /\ \A k \in (Len(before) + 1)..Len(after) : IsDetectionCall(after[k])

DetectionExecutes(tool, e) ==
    IF tool = "nvm-node"
    THEN LET raw == NvmMarkerRun(e) IN Launched(raw) /\ raw.code = 0
    ELSE TRUE

\* C12: detection fails closed: a selected tool whose detection command is not
\* launched or ends with a non-zero result is put in the pending list by the
\* planner and never in already-installed, whatever else the host holds; and
\* every selected tool is in exactly one of the two lists.
C12_DetectionFailsClosed ==
    [][pc = "plan" =>
          \A i \in 1..Len(selected_tools) :
              /\ InSeq(selected_tools[i], already_installed')
                    # InSeq(selected_tools[i], install_now')
              /\ ~DetectionExecutes(selected_tools[i], env) =>
                    /\ InSeq(selected_tools[i], install_now')
                    /\ ~InSeq(selected_tools[i], already_installed')]_vars

\* C12 witness: nvm and node are there, but bash could not be launched for the
\* marker test, and the plan lists nvm-node as pending
C12_Witness ==
    /\ pc = "confirm"
    /\ externals = 0
    /\ env.nvmMarker
    /\ "node" \in env.onPath
    /\ "bash" \notin env.onPath
    /\ InSeq("nvm-node", install_now)
    /\ ~InSeq("nvm-node", already_installed)

-----------------------------------------------------------------------------
(* Properties of the selector *)

\* the parser has returned
ParseReturned == sel_pc = "returned" /\ parsed # Parsed(None, None)

\* the trimmed, lower-cased input and its comma-separated tokens, each trimmed
InputValue == Lower(Strip(raw_text))
InputTokens == StripAll(Split(InputValue, ","))

\* the input is one of the keywords of the table, whatever the case of its key
IsKeywordInput == \E k \in 1..Len(keywords) : Lower(keywords[k].key) = InputValue

\* a non-empty run of digits; a token of two such runs around one "-"
IsNumberText(t) == t # <<>> /\ \A i \in 1..Len(t) : IsDigit(t[i])
RangeParts(t) == StripAll(Split(t, "-"))
IsRangeToken(t) ==
    /\ Len(RangeParts(t)) = 2
    /\ IsNumberText(RangeParts(t)[1])
    /\ IsNumberText(RangeParts(t)[2])

\* the 0-based indices a well-formed token denotes
TokenDenotes(t) ==
    IF IsNumberText(t) THEN {int(t) - 1}
    ELSE IF IsRangeToken(t)
    THEN {v - 1 : v \in int(RangeParts(t)[1])..int(RangeParts(t)[2])}
    ELSE {}

\* the 0-based indices the input denotes: the list of its keyword, or the
\* union of its numbers and ranges
InputDenotes ==
    IF IsKeywordInput
    THEN LET list == KeywordIndices(keywords, InputValue)
         IN  {list[i] : i \in 1..Len(list)}
    ELSE UNION {TokenDenotes(InputTokens[i]) : i \in 1..Len(InputTokens)}

\* C13: whenever the parser succeeds, by keyword or by tokens, the list it
\* returns is strictly ascending (so without duplicates), holds only indices in
\* [0, item_count), and as a set is exactly the set of 0-based indices the input
\* denotes, whatever the order of the tokens or of the keyword's list.
C13_CanonicalResult ==
    (ParseReturned /\ parsed.error = None) =>
        /\ parsed.indices # None
        /\ LET list == parsed.indices.value
           IN  /\ \A i, j \in 1..Len(list) : i < j => list[i] < list[j]
               /\ \A i \in 1..Len(list) : 0 <= list[i] /\ list[i] < n_items
               /\ {list[i] : i \in 1..Len(list)} = InputDenotes

\* C13 witness: "2,1" on a menu of two items gives [0, 1]
C13_Witness ==
    /\ ParseReturned
    /\ raw_text = <<"2", ",", "1">>
    /\ n_items = 2
    /\ parsed.error = None
    /\ parsed.indices = Some(<<0, 1>>)

\* the kinds of error, by their messages
IsEmptyInputError(e) == e # None /\ e.text = EmptyInputError.text
IsKeywordOutOfRangeError(e) ==
    e # None /\ e.text = KeywordOutOfRangeError(<<>>, 0, 0).text
IsMalformedTokenError(e) ==
    /\ e # None
    /\ e.text \in {EmptyTokenError.text, MalformedRangeError(<<>>).text,
                   RangeNotNumbersError(<<>>).text, NotNumberError(<<>>).text}
IsInvalidRangeError(e) == e # None /\ e.text = InvalidRangeError(<<>>).text
IsOutOfRangeError(e) ==
    /\ e # None
    /\ e.text \in {RangeOutOfRangeError(<<>>, 0).text, NumberOutOfRangeError(0, 0).text}

InMenu(i) == 0 <= i /\ i < n_items

\* the returned pair is what the expansion of an index list gives, and nothing else
IsExpansionOf(list) ==
    IF \A i \in 1..Len(list) : InMenu(list[i])
    THEN /\ parsed.error = None
         /\ parsed.indices # None
         /\ LET result == parsed.indices.value
            IN  /\ {result[i] : i \in 1..Len(result)} = {list[i] : i \in 1..Len(list)}
                /\ \A i, j \in 1..Len(result) : i < j => result[i] < result[j]
    ELSE /\ parsed.indices = None
         /\ IsKeywordOutOfRangeError(parsed.error)

\* C14: if the trimmed, lower-cased, non-empty input is equal to a key of the
\* keyword table, the result is the expansion of a keyword whose lower-cased
\* key is that input, and never what the tokens of the input would give, even
\* when the input reads as a number or range; an input in upper case matches.
C14_KeywordPrecedence ==
    (ParseReturned /\ InputValue # <<>>
        /\ \E k \in 1..Len(keywords) : keywords[k].key = InputValue) =>
            \E k \in 1..Len(keywords) :
                /\ Lower(keywords[k].key) = InputValue
                /\ IsExpansionOf(keywords[k].indices)

\* C14 witness: the keyword "1" stands for the second item, and the input " 1"
\* on a menu of two items gives [1], not [0]
C14_Witness ==
    /\ ParseReturned
    /\ raw_text = <<" ", "1">>
    /\ n_items = 2
    /\ \E k \in 1..Len(keywords) : keywords[k].key = <<"1">> /\ keywords[k].indices = <<1>>
    /\ parsed.indices = Some(<<1>>)

\* the first index of a list that is outside the menu
FirstOutside(list) ==
    list[CHOOSE i \in 1..Len(list) :
            ~InMenu(list[i]) /\ \A j \in 1..(i - 1) : InMenu(list[j])]

\* C15: if the index list of the matched keyword holds an index outside
\* [0, item_count), the parse returns no indices and the keyword-out-of-range
\* error, which names the keyword, the first such index as a 1-based value,
\* and item_count as the end of the valid range.
C15_KeywordOutOfRange ==
    (ParseReturned /\ InputValue # <<>> /\ IsKeywordInput) =>
        LET list == KeywordIndices(keywords, InputValue)
        IN  (\E i \in 1..Len(list) : ~InMenu(list[i])) =>
                /\ parsed.indices = None
                /\ IsKeywordOutOfRangeError(parsed.error)
                /\ parsed.error.value = InputValue
                /\ parsed.error.number = FirstOutside(list) + 1
                /\ parsed.error.item_count = n_items

\* C15 witness: the list [0, MaxItems, -1] on a menu of one item: index 0 is in
\* the menu, the error names MaxItems + 1 and nothing is returned
C15_Witness ==
    /\ ParseReturned
    /\ raw_text = <<"M">>
    /\ n_items = 1
    /\ IsKeywordInput
    /\ KeywordIndices(keywords, InputValue) = <<0, MaxItems, -1>>
    /\ parsed.indices = None
    /\ parsed.error.number = MaxItems + 1

\* the input goes to the tokens: it is neither empty nor a keyword
IsTokenInput == ParseReturned /\ InputValue # <<>> /\ ~IsKeywordInput

\* the kinds of token, in the words of the claims: "malformed" is a token that
\* is neither an integer nor two integers around one "-"; "invalid-range" is
\* a range with start > end; "out-of-range" is a number outside
\* [1, item_count] or a range with start <= end that leaves it
TokenKind(t) ==
    IF IsNumberText(t)
    THEN (IF 1 <= int(t) /\ int(t) <= n_items THEN "valid" ELSE "out-of-range")
    ELSE LET parts == RangeParts(t)
         IN  IF Len(parts) = 2 /\ IsNumberText(parts[1]) /\ IsNumberText(parts[2])
             THEN LET start == int(parts[1])
                      end == int(parts[2])
                  IN  IF start > end THEN "invalid-range"
                      ELSE IF start < 1 \/ end > n_items THEN "out-of-range"
                      ELSE "valid"
             ELSE "malformed"

TokenKinds(tokens) == [i \in 1..Len(tokens) |-> TokenKind(tokens[i])]

\* the position of the first token that is not valid, 0 if there is none
FirstRejected(kinds) ==
    IF \A i \in 1..Len(kinds) : kinds[i] = "valid" THEN 0
    ELSE CHOOSE i \in 1..Len(kinds) :
            kinds[i] # "valid" /\ \A j \in 1..(i - 1) : kinds[j] = "valid"

\* C16 as stated: any out-of-range number or range among the tokens makes the
\* parse fail with the out-of-range error.
C16_AnyOutOfRangeTokenFails ==
    IsTokenInput =>
        LET kinds == TokenKinds(InputTokens)
        IN  (\E i \in 1..Len(kinds) : kinds[i] = "out-of-range") =>
                /\ parsed.indices = None
                /\ IsOutOfRangeError(parsed.error)

\* C16: if the first token that is not valid is a number outside
\* [1, item_count], or a range of two integers with start <= end whose start is
\* below 1 or whose end is above item_count, the parse returns no indices and
\* the out-of-range error, which names the number (or the range token) and
\* item_count, whatever the other tokens are.
C16_FirstOutOfRangeTokenFails ==
    IsTokenInput =>
        LET tokens == InputTokens
            kinds == TokenKinds(tokens)
            first == FirstRejected(kinds)
        IN  (first # 0 /\ kinds[first] = "out-of-range") =>
                /\ parsed.indices = None
                /\ IsOutOfRangeError(parsed.error)
                /\ parsed.error.item_count = n_items
                /\ IF IsNumberText(tokens[first])
                   THEN parsed.error = NumberOutOfRangeError(int(tokens[first]), n_items)
                   ELSE parsed.error = RangeOutOfRangeError(tokens[first], n_items)

\* C16 witness: "0,1" on a menu of one item: the second token is valid, the
\* first is out of range, and nothing is returned
C16_Witness ==
    /\ IsTokenInput
    /\ raw_text = <<"0", ",", "1">>
    /\ n_items = 1
    /\ parsed.indices = None
    /\ parsed.error = NumberOutOfRangeError(0, 1)

\* C17: a range of two integers with start > end, met by the parser (no token
\* before it is rejected), fails with the invalid-range error naming the token,
\* also when the range lies outside [1, item_count]: the order of the ends is
\* checked before the bounds.  A range with start = end is not invalid: with
\* every token valid the parse succeeds and the result holds start - 1.
C17_InvalidRangeBeforeBounds ==
    IsTokenInput =>
        LET tokens == InputTokens
            kinds == TokenKinds(tokens)
            first == FirstRejected(kinds)
        IN  /\ (first # 0 /\ kinds[first] = "invalid-range") =>
                  /\ parsed.indices = None
                  /\ parsed.error = InvalidRangeError(tokens[first])
            /\ first = 0 =>
                  /\ parsed.error = None
                  /\ parsed.indices # None
                  /\ \A i \in 1..Len(tokens) :
                        LET parts == RangeParts(tokens[i])
                        IN  (Len(parts) = 2 /\ int(parts[1]) = int(parts[2])) =>
                                InSeq(int(parts[1]) - 1, parsed.indices.value)

\* C17 witness: "2-0" on a menu of one item is reversed and outside the menu
\* at both ends, and is reported as an invalid range
C17_Witness ==
    /\ IsTokenInput
    /\ raw_text = <<"2", "-", "0">>
    /\ n_items = 1
    /\ parsed.indices = None
    /\ IsInvalidRangeError(parsed.error)

\* C18 as stated: a non-keyword input with a malformed token among its tokens
\* fails with a malformed-token error.
C18_AnyMalformedTokenFails ==
    IsTokenInput =>
        LET kinds == TokenKinds(InputTokens)
        IN  (\E i \in 1..Len(kinds) : kinds[i] = "malformed") =>
                /\ parsed.indices = None
                /\ IsMalformedTokenError(parsed.error)

\* C18: if the first token that is not valid is malformed (empty after
\* trimming, a single token that is not an integer, or a token with "-" that
\* is not exactly two non-empty integer parts), the parse returns no indices
\* and a malformed-token error.
C18_FirstMalformedTokenFails ==
    IsTokenInput =>
        LET tokens == InputTokens
            kinds == TokenKinds(tokens)
            first == FirstRejected(kinds)
        IN  (first # 0 /\ kinds[first] = "malformed") =>
                /\ parsed.indices = None
                /\ IsMalformedTokenError(parsed.error)
                /\ (tokens[first] = <<>>) <=> (parsed.error = EmptyTokenError)

\* C18 witness: "1,-2" on a menu of two items: the negative number is
\* malformed, not out of range
C18_Witness ==
    /\ IsTokenInput
    /\ raw_text = <<"1", ",", "-", "2">>
    /\ n_items = 2
    /\ parsed.indices = None
    /\ parsed.error = MalformedRangeError(<<"-", "2">>)

\* C19: an input that is empty or holds nothing but blanks fails with the
\* empty-input error and returns no indices, for every item_count and every
\* keyword table, also one with an empty key: the test comes before the
\* keyword lookup and before the tokens.
C19_EmptyInput ==
    (ParseReturned /\ \A i \in 1..Len(raw_text) : raw_text[i] = " ") =>
        parsed = Parsed(None, EmptyInputError)

\* C19 witness: two blanks, with a table that has the empty text as a key
C19_Witness ==
    /\ ParseReturned
    /\ raw_text = <<" ", " ">>
    /\ \E k \in 1..Len(keywords) : keywords[k].key = <<>>
    /\ n_items = 1
    /\ IsEmptyInputError(parsed.error)
    /\ parsed.indices = None

\* C20: every turn of the prompt loop of multi_select_from_list ends in one of
\* three ways, decided by the entry of that turn alone: the back value (when
\* back is allowed) returns None; an entry the parser rejects shows the
\* parser's error and leaves the loop at the prompt with nothing returned; an
\* entry the parser accepts returns exactly the indices of that entry.  No turn
\* hands a command to the Command Runner or changes the host or the plan.
C20_ParseErrorsRecoverable ==
    [][sel_pc = "prompt" =>
          LET choice == Lower(Strip(raw_text'))
              r == parse_multi_select_indices(choice, n_items, keywords)
          IN  /\ IF allow_back /\ choice = <<"b">>
                 THEN sel_pc' = "returned" /\ sel_result' = None
                 ELSE IF r.error # None
                 THEN /\ sel_pc' = "prompt"
                      /\ last_shown' = r.error
                      /\ sel_result' = None
                 ELSE /\ sel_pc' = "returned"
                      /\ sel_result' = r.indices
                      /\ sel_result' # None
              /\ calls' = calls
              /\ env' = env
              /\ UNCHANGED <<already_installed, install_now, attempts, update_status>>]_vars

\* C20 witness: after a rejected entry, whose error was shown, the entry "1"
\* was accepted and the call returned [0]
C20_Witness ==
    /\ sel_pc = "returned"
    /\ last_shown # None
    /\ raw_text = <<"1">>
    /\ sel_result = Some(<<0>>)
    /\ calls = <<>>

-----------------------------------------------------------------------------
(* Properties of the menu *)

\* the entry that returned from the prompt, as the selector compares it
EnteredChoice == Lower(Strip(raw_text))

MissingKeywords == {<<"m", "i", "s", "s", "i", "n", "g">>, <<"m">>}

\* the tools of the catalog that fail detection on a host, in catalog order
FailingTools(p, e) == SelectSeq(TOOL_ORDER, LAMBDA tool : ~_is_installed(tool, p, e))

AllInstalled ==
    /\ Len(attempts) = Len(tools)
    /\ \A i \in 1..Len(attempts) : attempts[i].ok

\* what a step of the menu does after "missing" or "m" was entered
MissingStep ==
    EnteredChoice \in MissingKeywords =>
        /\ (pc = "select" /\ sel_pc = "returned" =>
               IF FailingTools(pm, env) = <<>>
               THEN pc' = "done" /\ menu_result' = "False"
               ELSE pc' = "plan" /\ selected_tools' = FailingTools(pm, env))
        /\ (pc = "plan" =>
               pc' = "confirm" /\ install_now' = FailingTools(pm, env))
        /\ (pc = "confirm" /\ pc' = "batch" => tools' = FailingTools(pm, env))
        /\ (pc = "summary" /\ AllInstalled =>
               /\ success_tools = tools
               /\ failed_tools = <<>>
               /\ batch_result' = "True"
               /\ menu_result' = "True")

\* C21: when the user enters "missing" or "m" in the menu, and nobody else
\* changes the host meanwhile, the selection, the pending list of the plan and
\* the list handed to the batch are exactly the catalog tools that fail
\* detection, in catalog order (nothing is handed on when none fails); and when
\* every one of them installs successfully, succeeded equals that list, failed
\* is empty and the operation returns True.
C21_MissingEndToEnd == [][MissingStep]_vars

\* "missing" was entered on a host where htop, go and brew fail detection, all
\* three were installed and the operation returned True
C21_Witness ==
    /\ pc = "done"
    /\ raw_text = <<"m", "i", "s", "s", "i", "n", "g">>
    /\ tools = <<"htop", "go", "brew">>
    /\ AllInstalled
    /\ success_tools = tools
    /\ menu_result = "True"

\* a command other than a detection check was handed to the Command Runner
CommandsRun == \E k \in 1..Len(calls) : ~IsDetectionCall(calls[k])

\* the user confirmed a plan: its pending list was handed to the batch
Confirmed == tools # <<>>

\* C28: install_menu runs the update command and the installers only if the
\* pending list of the plan is non-empty and the user confirmed: before that,
\* and for ever after a back, an empty selection, a selection of installed
\* tools only or a declined confirmation, only detection checks have run, no
\* tool was attempted and the package index was not touched.
C28_CommandsOnlyAfterConfirmation ==
    /\ Confirmed =>
          /\ tools = install_now
          /\ sel_result # None
          /\ pc \in {"batch", "install", "summary", "crashed", "done"}
    /\ ~Confirmed =>
          /\ ~CommandsRun
          /\ attempts = <<>>
          /\ update_status = "none"
          /\ success_tools = <<>>
          /\ failed_tools = <<>>
          /\ batch_result = "none"
    /\ (pc = "done" /\ (sel_result = None \/ sel_result = Some(<<>>)
                          \/ install_now = <<>> \/ batch_result = "none"))
          => ~Confirmed

\* the user selected a missing tool and declined the confirmation: the
\* detections of the display and of the plan ran and nothing else
C28_Witness ==
    /\ pc = "done"
    /\ menu_result = "False"
    /\ install_now = <<"htop", "go">>
    /\ tools = <<>>
    /\ Len(calls) = 2
    /\ ~CommandsRun

\* C26: the catalog is well-formed as far as any selection of the menu can
\* tell: every index the selector returns lies in the catalog and resolves to
\* TOOL_ORDER[i], no name is selected twice (not even by "all", which selects
\* the whole of TOOL_ORDER), every selected name is a key of exactly one of
\* COMMON_PACKAGES and SCRIPT_TOOLS, and every script-installed name has an
\* installer in the dispatch table.
C26_CatalogWellFormed ==
    (pc \notin {"menu", "select"} /\ sel_result # None) =>
        /\ Len(selected_tools) = Len(sel_result.value)
        /\ \A k \in 1..Len(sel_result.value) :
              LET i == sel_result.value[k]
                  name == selected_tools[k]
              IN  /\ i \in 0..(Len(TOOL_ORDER) - 1)
                  /\ name = TOOL_ORDER[i + 1]
                  /\ \A j \in 1..Len(selected_tools) : selected_tools[j] = name => j = k
                  /\ (name \in DOMAIN COMMON_PACKAGES) # (name \in DOMAIN SCRIPT_TOOLS)
                  /\ name \in DOMAIN SCRIPT_TOOLS => name \in Installers

\* "all" was entered and the whole catalog went through the plan
C26_Witness ==
    /\ pc = "done"
    /\ raw_text = <<"a", "l", "l">>
    /\ selected_tools = TOOL_ORDER
    /\ Len(already_installed) + Len(install_now) = Len(TOOL_ORDER)
    /\ install_now # <<>>

-----------------------------------------------------------------------------
(* Properties of the Go installer *)

\* uname -m printed something that is none of x86_64, aarch64 and arm64
UnmappedArch(a) ==
    /\ a.tool = "go"
    /\ a.arch # None
    /\ ~(Len(a.arch.value) = 1 /\ a.arch.value[1] \in {"x86_64", "aarch64", "arm64"})

\* the commands of _install_go after the architecture was mapped
GoInstallCommands ==
    {GoVersionCommand, GoDownloadCommand, SudoCommand(GoRemoveCommand),
     SudoCommand(GoExtractCommand), GoCleanupCommand, GoTestCommand}

\* C27: when the architecture string is not a mapped one, the Go installer
\* fails for that tool only: the attempt runs no version, download, removal,
\* extraction or verification command and raises nothing, the host is as
\* before, go is recorded in failed, and the batch goes on to the next tool.
C27_UnmappedArchFailsGoOnly ==
    \A i \in 1..Len(attempts) :
        UnmappedArch(attempts[i]) =>
            /\ ~attempts[i].ok
            /\ ~attempts[i].raised
            /\ \A k \in 1..Len(attempts[i].calls) :
                  attempts[i].calls[k] \notin GoInstallCommands
            /\ attempts[i].detected = attempts[i].pre
            /\ InSeq("go", failed_tools)
            /\ ~InSeq("go", success_tools)
            /\ (Len(attempts) = i /\ i < Len(tools)) => (pc = "install" /\ idx = i + 1)
            /\ (Len(attempts) = i /\ i = Len(tools)) => pc \in {"summary", "done"}
            /\ pc \in {"summary", "done"} => Len(attempts) = Len(tools)

\* go failed on riscv64 as the first of two tools, and brew was installed
\* after it
C27_Witness ==
    /\ pc = "done"
    /\ tools = <<"go", "brew">>
    /\ Len(attempts) = 2
    /\ attempts[1].arch = Some(<<"riscv64">>)
    /\ attempts[2].ok
    /\ failed_tools = <<"go">>
    /\ success_tools = <<"brew">>

-----------------------------------------------------------------------------
(* Properties of the platform detection *)

\* the managers the tables give to a set of names
ManagersOf(branches, names) ==
    {branches[k].pm : k \in {j \in 1..Len(branches) : branches[j].ids \cap names # {}}}

FamiliesOf(d) == {d.id_like[i] : i \in 1..Len(d.id_like)}

\* the fixed order of the probing
FixedOrder == <<"apt", "dnf", "yum", "pacman", "apk", "zypper">>

\* what one detection did, by the three stages of the priority
DetectedByPriority(d) ==
    IF ManagersOf(IdBranches, {d.id}) # {}
    THEN /\ ManagersOf(IdBranches, {d.id}) = {d.package_manager}
         /\ d.probed = <<>>
    ELSE IF ManagersOf(IdLikeBranches, FamiliesOf(d)) # {}
    THEN /\ d.package_manager \in ManagersOf(IdLikeBranches, FamiliesOf(d))
         /\ d.probed = <<>>
    ELSE /\ d.probed = SubSeq(FixedOrder, 1, Len(d.probed))
         /\ \A k \in 1..(Len(d.probed) - 1) : d.probed[k] \notin d.onPath
         /\ IF FixedOrder[Len(d.probed)] \in d.onPath
            THEN d.package_manager = FixedOrder[Len(d.probed)]
            ELSE /\ d.probed = FixedOrder
                 /\ d.package_manager = UNKNOWN
         /\ d.package_manager = UNKNOWN <=> d.onPath \cap ManagerBinaries = {}

\* C23: every detection decides by the distribution ID first, then by the
\* ID_LIKE family, then by the executables looked up in the order apt, dnf,
\* yum, pacman, apk, zypper up to the first one found, and yields UNKNOWN only
\* if none applies; no executable is looked up when the ID or a family matched.
C23_DetectionPriority ==
    \A i \in 1..Len(detections) :
        /\ DetectedByPriority(detections[i])
        /\ detections[i].package_manager \in PackageManager

\* ID=alpine with ID_LIKE=debian on a host that has apt: the ID won
C23_Witness ==
    /\ Len(detections) = 1
    /\ detections[1].id = "alpine"
    /\ detections[1].id_like = <<"debian">>
    /\ "apt" \in detections[1].onPath
    /\ detections[1].package_manager = APK
    /\ detections[1].probed = <<>>

\* an unknown ID without a family on a host with yum and zypper: apt, dnf and
\* yum were looked up, and yum won
C23_ProbingReached ==
    /\ Len(detections) = 1
    /\ detections[1].id = "void"
    /\ detections[1].probed = <<"apt", "dnf", "yum">>
    /\ detections[1].package_manager = YUM
    /\ "zypper" \in detections[1].onPath

\* C22: the platform is detected at most once in a run of the process: after
\* the first detection no component opens /etc/os-release or looks up an
\* executable again, and every component sees the package manager the first
\* detection found.
C22_DetectedOnce ==
    \A i \in 2..Len(detections) :
        /\ ~detections[i].opened
        /\ detections[i].probed = <<>>
        /\ detections[i].package_manager = detections[1].package_manager

\* two components of one run hold different package managers
C22_ComponentsDisagree ==
    /\ Len(detections) = 2
    /\ detections[1].who = "PackagesManager"
    /\ detections[2].who = "get_package_manager"
    /\ detections[1].package_manager = UNKNOWN
    /\ detections[2].package_manager = APT

-----------------------------------------------------------------------------
(* Properties of the process *)

\* C24: the process exits with 0 after a quit through the menus and with a
\* non-zero code after an error at top level; when verify_sudo fails at
\* startup it exits with a non-zero code and has shown no menu.
C24_ExitCodes ==
    /\ cli_pc = "quit" => exit_code = Some(0)
    /\ cli_pc = "error" => (exit_code # None /\ exit_code # Some(0))
    /\ cli_pc = "no sudo" =>
          /\ exit_code # None
          /\ exit_code # Some(0)
          /\ menu_choices = <<>>

\* what the process does instead: a failed verify_sudo shows no menu, prints
\* its two messages and ends with 0
C24_NoSudoExitsZero ==
    /\ cli_pc = "quit" => exit_code = Some(0)
    /\ cli_pc = "error" => exit_code = Some(1)
    /\ cli_pc = "no sudo" =>
          /\ exit_code = Some(0)
          /\ menu_choices = <<>>
          /\ Len(cli_printed) = 2
    /\ cli_pc \in {"start", "verify", "menu"} <=> exit_code = None

-----------------------------------------------------------------------------
(* Properties of the Command Runner *)

C25_SudoFailureReached ==
    /\ runner_pc = "returned"
    /\ runner_call.sudo
    /\ runner_raw.kind = "exit"
    /\ runner_raw.code = 1
    /\ ~runner_result.success

-----------------------------------------------------------------------------
(* Properties of the SSH operations *)

\* the positions of the commands in the log
LogPositions(command) == {k \in 1..Len(ssh_log) : ssh_log[k].cmd = SudoCommand(command)}

\* what one step of an SSH operation keeps to
BackupGuardedStep ==
    \* sshd_config changes, and tee is run, only while a backup of this
    \* operation exists, made from the content that is being replaced
    /\ (sshd_config' # sshd_config \/ LogPositions(WriteConfigCommand)' # {}) =>
          /\ ssh_backup # None
          /\ ssh_pc = "write" => ssh_backup = Some(sshd_config)
          /\ \E k \in LogPositions(BackupConfigCommand)' :
                ssh_log'[k].ok /\ \A w \in LogPositions(WriteConfigCommand)' : k < w
    \* a failed read and a failed backup return False and leave the file alone
    /\ (ssh_pc \in {"read", "backup"} /\ ssh_pc' = "done") =>
          /\ ~ssh_log'[Len(ssh_log')].ok \/ ssh_content' = Some(<<>>)
          /\ ssh_result' = "False"
          /\ sshd_config' = sshd_config
          /\ LogPositions(WriteConfigCommand)' = {}
    \* harden_all after a failed sshd -t: the copy of the backup over the file
    \* is the next and last command, it puts the old content back if it
    \* succeeds, and False is returned
    /\ (ssh_op.kind = "harden" /\ ssh_pc = "test" /\ ~ssh_log'[Len(ssh_log')].ok) =>
          /\ ssh_pc' = "restore"
          /\ ssh_result' = "none"
    /\ ssh_pc = "restore" =>
          /\ ssh_log' = Append(ssh_log, ssh_log'[Len(ssh_log')])
          /\ ssh_log'[Len(ssh_log')].cmd = SudoCommand(RestoreConfigCommand)
          /\ ssh_log'[Len(ssh_log')].ok => sshd_config' = ssh_backup.value
          /\ ssh_result' = "False"
          /\ ssh_pc' = "done"

\* C29: SSH configuration changes are backup-guarded: in _modify_config and in
\* harden_all sshd_config is written only after a backup copy was made
\* successfully in the same operation, a failed backup or read returns False
\* with the file unwritten, and in harden_all a failed sshd -t is always
\* followed by the copy of the backup over sshd_config before False is returned.
C29_BackupGuarded == [][BackupGuardedStep]_vars

\* harden_all wrote the hardened file, sshd -t failed, the backup was copied
\* back and False was returned
C29_Witness ==
    /\ ssh_op.kind = "harden"
    /\ ssh_pc = "done"
    /\ ssh_result = "False"
    /\ Len(ssh_log) = 5
    /\ ssh_log[3] = Logged(WriteConfigCommand, TRUE)
    /\ ssh_log[4] = Logged(TestConfigCommand, FALSE)
    /\ ssh_log[5] = Logged(RestoreConfigCommand, TRUE)
    /\ sshd_config = ssh_backup.value
    /\ sshd_config # Harden(sshd_config, 1)

-----------------------------------------------------------------------------
(* Properties of enable_domain *)

NginxCommands == {nginx_log[k].cmd : k \in 1..Len(nginx_log)}

\* what one step of enable_domain keeps to
RevertingStep ==
    \* the test failed after the link was made: the removal of that link is
    \* the next and the last command, nginx is not reloaded, False is returned
    /\ (nginx_pc = "test" /\ ~nginx_log'[Len(nginx_log')].ok) =>
          /\ nginx_log[Len(nginx_log)] =
                [cmd |-> SudoCommand(LinkCommand(nginx_domain.value)), ok |-> TRUE]
          /\ nginx_pc' = "revert"
          /\ nginx_result' = "none"
    /\ nginx_pc = "revert" =>
          /\ Len(nginx_log') = Len(nginx_log) + 1
          /\ nginx_log'[Len(nginx_log')].cmd =
                <<"sudo", "rm", nginx_log[1].cmd[5]>>
          /\ nginx_log[1].cmd[5] = DestPath(nginx_domain.value)
          /\ SudoCommand(NginxReloadCommand) \notin NginxCommands'
          /\ nginx_pc' = "done"
          /\ nginx_result' = "False"
          /\ \A name \in Domains \ {nginx_domain.value} :
                sites_enabled'[name] = sites_enabled[name]
    \* the destination is there already: False is returned and no command is run
    /\ (nginx_pc = "link" /\ sites_enabled[nginx_domain.value] # "absent") =>
          /\ nginx_pc' = "done"
          /\ nginx_result' = "False"
          /\ nginx_log' = <<>>
          /\ sites_enabled' = sites_enabled
    \* nginx is reloaded only after a test that passed
    /\ nginx_pc = "reload" => nginx_log[Len(nginx_log)].ok

\* C30: enable_domain reverts on a bad configuration: when the symlink was
\* made and the nginx test that follows fails, the removal of exactly that
\* symlink is run, nginx is not reloaded and False is returned; when the
\* destination exists already, False is returned without a link being made,
\* a test or a reload.
C30_EnableReverts == [][RevertingStep]_vars

\* the link was made, nginx -t failed, the link was removed again and False
\* was returned
C30_Witness ==
    /\ nginx_pc = "done"
    /\ nginx_result = "False"
    /\ nginx_domain = Some("b.example")
    /\ nginx_log = << [cmd |-> SudoCommand(LinkCommand("b.example")), ok |-> TRUE],
                      [cmd |-> SudoCommand(NginxTestCommand), ok |-> FALSE],
                      [cmd |-> SudoCommand(RemoveLinkCommand("b.example")), ok |-> TRUE] >>
    /\ sites_enabled["b.example"] = "absent"

\* the destination was a regular file: nothing was run
C30_TakenReached ==
    /\ nginx_pc = "done"
    /\ nginx_request = None
    /\ nginx_domain = Some("a.example")
    /\ sites_enabled["a.example"] = "file"
    /\ nginx_log = <<>>
    /\ nginx_result = "False"

====
